---- MODULE Spec2Model ----
(***************************************************************************)
(* Model of the iac-translator core: the plugin registry                   *)
(* (src/core/registry.ts) and the translation engine (core/engine.ts, kept *)
(* in src/.kiro/specs/iac-translator/requirements.md lines 1187-1489).     *)
(*                                                                         *)
(* Strings are sequences of tokens: a language name is a sequence of       *)
(* one-character tokens, a literal piece of a template string is a single  *)
(* token, and string concatenation is \o.  An optional value (`x?: T`) is  *)
(* the empty sequence when undefined and <<v>> when defined.               *)
(***************************************************************************)
EXTENDS Integers, Sequences, FiniteSets, TLC

VARIABLES
    parsers,      \* PluginRegistry.parsers: Map<string, ParserPlugin>, in insertion order
    generators,   \* PluginRegistry.generators: Map<string, GeneratorPlugin>
    pc,           \* "idle": no call in progress; "done": a call has returned `result`
    call,         \* the operation invoked last and its arguments
    log,          \* the plugin operations invoked by that call, with what they returned
    result,       \* the value the call returned (or the error it threw)
    lastParser,   \* history: language key -> last parser whose registration succeeded since clear()
    lastGenerator, \* history: language key -> last generator whose registration succeeded since clear()
    mappings,     \* ResourceTypeMapper.mappings: Map<string, Map<string, ResourceTypeMapping>>
    lastMapping   \* history: <<source key, target key, sourceType>> -> last mapping registered since clear(), for the triples registered

vars == <<parsers, generators, pc, call, log, result, lastParser, lastGenerator,
          mappings, lastMapping>>

registryVars == <<parsers, generators, lastParser, lastGenerator>>
mapperVars == <<mappings, lastMapping>>

(***************************************************************************)
(* Bounds                                                                  *)
(***************************************************************************)
MaxErrors == 1        \* longest error list a plugin operation returns
MaxWarnings == 2      \* longest warning list a plugin operation returns
MaxUnsupported == 1   \* longest unsupportedFeatures list a generator returns
MaxLines == 4         \* most lines of a source handed to the Terraform parser

(***************************************************************************)
(* JavaScript values                                                       *)
(***************************************************************************)
None == <<>>
Some(v) == <<v>>

Undefined == [t |-> "undefined", v |-> <<>>]
Str(s) == [t |-> "string", v |-> s]
Arr(a) == [t |-> "array", v |-> a]
Num == [t |-> "number", v |-> <<>>]
Fn == [t |-> "function", v |-> <<>>]

\* !x for the values above
Falsy(x) == x.t = "undefined" \/ (x.t = "string" /\ x.v = <<>>)

LowerChar(c) ==
    CASE c = "T" -> "t"
      [] c = "F" -> "f"
      [] c = "C" -> "c"
      [] OTHER -> c

\* String.prototype.toLowerCase
ToLowerCase(s) == [i \in 1..Len(s) |-> LowerChar(s[i])]

\* String.prototype.includes: sub occurs in s as a contiguous run of tokens
Includes(s, sub) ==
    \E i \in 0..(Len(s) - Len(sub)) : SubSeq(s, i + 1, i + Len(sub)) = sub

(***************************************************************************)
(* Map<string, V>: entries in insertion order                              *)
(***************************************************************************)
MapHas(m, k) == \E i \in 1..Len(m) : m[i].key = k

MapGet(m, k) ==
    IF MapHas(m, k)
    THEN Some((CHOOSE e \in {m[i] : i \in 1..Len(m)} : e.key = k).value)
    ELSE None

\* mutant: a key set again moves to the end of the map
MapSet_MovedToEnd(m, k, val) ==
    Append(SelectSeq(m, LAMBDA e : e.key # k), [key |-> k, value |-> val])

MapSet(m, k, val) ==
    IF MapHas(m, k)
    THEN [i \in 1..Len(m) |-> IF m[i].key = k THEN [key |-> k, value |-> val] ELSE m[i]]
    ELSE Append(m, [key |-> k, value |-> val])

MapKeys(m) == [i \in 1..Len(m) |-> m[i].key]

(***************************************************************************)
(* Plugin objects                                                          *)
(***************************************************************************)
tf == <<"t", "f">>
Tf == <<"T", "f">>
TF == <<"T", "F">>
cf == <<"c", "f">>
Cf == <<"C", "f">>
xx == <<"x", "x">>

\* language names plugins are created with
PluginNames == {tf, Tf, cf, Cf}
\* language names callers look up
LookupNames == {tf, TF, cf, xx}
\* language keys of the registry
Keys == {ToLowerCase(n) : n \in PluginNames \cup LookupNames}

ParserObj(id, name, exts, parse, validate) ==
    [id |-> id, languageName |-> name, fileExtensions |-> exts,
     parse |-> parse, validate |-> validate]

GeneratorObj(id, name, ext, generate, format) ==
    [id |-> id, languageName |-> name, fileExtension |-> ext,
     generate |-> generate, format |-> format]

\* well-formed parser objects: two distinct objects for the language "tf"
\* (in two casings) and one for "cf"
GoodParsers ==
    { ParserObj("p1", Str(tf), Arr(<<".tf">>), Fn, Fn),
      ParserObj("p2", Str(Tf), Arr(<<".tf", ".tfvars">>), Fn, Fn),
      ParserObj("p3", Str(cf), Arr(<<".json">>), Fn, Fn) }

\* parser objects missing one registration requirement
BadParsers ==
    { ParserObj("p5", Undefined, Arr(<<".tf">>), Fn, Fn),
      ParserObj("p6", Str(<<>>), Arr(<<".tf">>), Fn, Fn),
      ParserObj("p7", Num, Arr(<<".tf">>), Fn, Fn),
      ParserObj("p8", Str(tf), Undefined, Fn, Fn),
      ParserObj("p9", Str(tf), Arr(<<>>), Fn, Fn),
      ParserObj("p10", Str(tf), Str(<<".tf">>), Fn, Fn),
      ParserObj("p11", Str(tf), Arr(<<".tf">>), Undefined, Fn),
      ParserObj("p12", Str(cf), Arr(<<".tf">>), Fn, Undefined) }

ParserPlugins == GoodParsers \cup BadParsers

\* well-formed generator objects: two distinct objects for the language "cf"
\* (in two casings) and one for "tf"
GoodGenerators ==
    { GeneratorObj("g1", Str(cf), Str(<<".yaml">>), Fn, Fn),
      GeneratorObj("g2", Str(Cf), Str(<<".json">>), Fn, Fn),
      GeneratorObj("g3", Str(tf), Str(<<".tf">>), Fn, Fn) }

BadGenerators ==
    { GeneratorObj("g5", Undefined, Str(<<".yaml">>), Fn, Fn),
      GeneratorObj("g6", Str(<<>>), Str(<<".yaml">>), Fn, Fn),
      GeneratorObj("g7", Num, Str(<<".yaml">>), Fn, Fn),
      GeneratorObj("g8", Str(cf), Undefined, Fn, Fn),
      GeneratorObj("g9", Str(cf), Str(<<>>), Fn, Fn),
      GeneratorObj("g10", Str(cf), Arr(<<".yaml">>), Fn, Fn),
      GeneratorObj("g11", Str(cf), Str(<<".yaml">>), Undefined, Fn),
      GeneratorObj("g12", Str(tf), Str(<<".yaml">>), Fn, Undefined) }

GeneratorPlugins == GoodGenerators \cup BadGenerators

\* an object with both capability sets, and one with neither
bothPlugin ==
    [id |-> "b1", languageName |-> Str(tf), fileExtensions |-> Arr(<<".tf">>),
     fileExtension |-> Str(<<".tf">>), parse |-> Fn, validate |-> Fn,
     generate |-> Fn, format |-> Fn]

invalidPlugin == [id |-> "n1", languageName |-> Str(<<"invalid">>)]

\* the objects handed to registerPlugin
Plugins == GoodParsers \cup GoodGenerators \cup {bothPlugin, invalidPlugin}

\* the plugins an engine is set up with: both "tf" parsers, the first "cf"
\* generator and the "tf" generator, and the objects that fail registration
EngineParsers == {p \in ParserPlugins : p.id # "p3"}
EngineGenerators == {g \in GeneratorPlugins : g.id # "g2"}

(***************************************************************************)
(* PluginRegistry                                                          *)
(***************************************************************************)
\* mutant: the validate() method is not checked
validateParserPlugin_ValidateUnchecked(plugin) ==
    IF Falsy(plugin.languageName) \/ plugin.languageName.t # "string"
    THEN Some(<<"Parser plugin must have a languageName property of type string">>)
    ELSE IF Falsy(plugin.fileExtensions) \/ plugin.fileExtensions.t # "array"
            \/ Len(plugin.fileExtensions.v) = 0
    THEN Some(<<"Parser plugin must have a non-empty fileExtensions array">>)
    ELSE IF plugin.parse.t # "function"
    THEN Some(<<"Parser plugin must implement parse() method">>)
    ELSE None

\* None when the plugin passes, Some(message) when PluginValidationError is thrown
validateParserPlugin(plugin) ==
    IF Falsy(plugin.languageName) \/ plugin.languageName.t # "string"
    THEN Some(<<"Parser plugin must have a languageName property of type string">>)
    ELSE IF Falsy(plugin.fileExtensions) \/ plugin.fileExtensions.t # "array"
            \/ Len(plugin.fileExtensions.v) = 0
    THEN Some(<<"Parser plugin must have a non-empty fileExtensions array">>)
    ELSE IF plugin.parse.t # "function"
    THEN Some(<<"Parser plugin must implement parse() method">>)
    ELSE IF plugin.validate.t # "function"
    THEN Some(<<"Parser plugin must implement validate() method">>)
    ELSE None

validateGeneratorPlugin(plugin) ==
    IF Falsy(plugin.languageName) \/ plugin.languageName.t # "string"
    THEN Some(<<"Generator plugin must have a languageName property of type string">>)
    ELSE IF Falsy(plugin.fileExtension) \/ plugin.fileExtension.t # "string"
    THEN Some(<<"Generator plugin must have a fileExtension property of type string">>)
    ELSE IF plugin.generate.t # "function"
    THEN Some(<<"Generator plugin must implement generate() method">>)
    ELSE IF plugin.format.t # "function"
    THEN Some(<<"Generator plugin must implement format() method">>)
    ELSE None

\* mutant: the key taken as written, without lower-casing
pluginKey_AsWritten(plugin) == plugin.languageName.v

\* the key a plugin is stored under
pluginKey(plugin) == ToLowerCase(plugin.languageName.v)

\* mutant: the name looked up as written, without lower-casing
getParser_AsWritten(languageName) == MapGet(parsers, languageName)
getParser(languageName) == MapGet(parsers, ToLowerCase(languageName))
getGenerator(languageName) == MapGet(generators, ToLowerCase(languageName))
hasParser(languageName) == MapHas(parsers, ToLowerCase(languageName))
hasGenerator(languageName) == MapHas(generators, ToLowerCase(languageName))
getParserLanguages == MapKeys(parsers)
getGeneratorLanguages == MapKeys(generators)

Returned(v) == [thrown |-> FALSE, value |-> v]
Thrown(name, message) == [thrown |-> TRUE, value |-> [name |-> name, message |-> message]]

NoCall == [op |-> "none"]
NoResult == Returned(None)

registerParser(plugin) ==
    /\ pc = "idle"
    /\ call' = [op |-> "registerParser", plugin |-> plugin]
    /\ log' = <<>>
    /\ pc' = "done"
    /\ LET err == validateParserPlugin(plugin) IN
         IF err # None
         THEN /\ result' = Thrown("PluginValidationError", err[1])
              /\ UNCHANGED <<parsers, lastParser>>
         ELSE /\ parsers' = MapSet(parsers, pluginKey(plugin), plugin)
              /\ lastParser' = [lastParser EXCEPT
                                ![ToLowerCase(plugin.languageName.v)] = Some(plugin)]
              /\ result' = Returned(None)
    /\ UNCHANGED <<generators, lastGenerator, mapperVars>>

registerGenerator(plugin) ==
    /\ pc = "idle"
    /\ call' = [op |-> "registerGenerator", plugin |-> plugin]
    /\ log' = <<>>
    /\ pc' = "done"
    /\ LET err == validateGeneratorPlugin(plugin) IN
         IF err # None
         THEN /\ result' = Thrown("PluginValidationError", err[1])
              /\ UNCHANGED <<generators, lastGenerator>>
         ELSE /\ generators' = MapSet(generators, pluginKey(plugin), plugin)
              /\ lastGenerator' = [lastGenerator EXCEPT
                                   ![ToLowerCase(plugin.languageName.v)] = Some(plugin)]
              /\ result' = Returned(None)
    /\ UNCHANGED <<parsers, lastParser, mapperVars>>

\* 'parse' in plugin && 'validate' in plugin
isParserPlugin(plugin) == {"parse", "validate"} \subseteq DOMAIN plugin

\* 'generate' in plugin && 'format' in plugin
isGeneratorPlugin(plugin) == {"generate", "format"} \subseteq DOMAIN plugin

\* PluginRegistry.registerPlugin, with the registerParser or registerGenerator
\* it calls
registerPlugin(plugin) ==
    /\ pc = "idle"
    /\ call' = [op |-> "registerPlugin", plugin |-> plugin]
    /\ log' = <<>>
    /\ pc' = "done"
    /\ IF isParserPlugin(plugin)
       THEN LET err == validateParserPlugin(plugin) IN
            IF err # None
            THEN /\ result' = Thrown("PluginValidationError", err[1])
                 /\ UNCHANGED registryVars
            ELSE /\ parsers' = MapSet(parsers, pluginKey(plugin), plugin)
                 /\ lastParser' = [lastParser EXCEPT
                                   ![ToLowerCase(plugin.languageName.v)] = Some(plugin)]
                 /\ result' = Returned(None)
                 /\ UNCHANGED <<generators, lastGenerator>>
       ELSE IF isGeneratorPlugin(plugin)
       THEN LET err == validateGeneratorPlugin(plugin) IN
            IF err # None
            THEN /\ result' = Thrown("PluginValidationError", err[1])
                 /\ UNCHANGED registryVars
            ELSE /\ generators' = MapSet(generators, pluginKey(plugin), plugin)
                 /\ lastGenerator' = [lastGenerator EXCEPT
                                      ![ToLowerCase(plugin.languageName.v)] = Some(plugin)]
                 /\ result' = Returned(None)
                 /\ UNCHANGED <<parsers, lastParser>>
       ELSE /\ result' = Thrown("PluginValidationError",
                                <<"Plugin must implement either ParserPlugin or ",
                                  "GeneratorPlugin interface">>)
            /\ UNCHANGED registryVars
    /\ UNCHANGED mapperVars

clear ==
    /\ pc = "idle"
    /\ call' = [op |-> "clear"]
    /\ log' = <<>>
    /\ pc' = "done"
    /\ parsers' = <<>>
    /\ generators' = <<>>
    /\ lastParser' = [k \in Keys |-> None]
    /\ lastGenerator' = [k \in Keys |-> None]
    /\ result' = Returned(None)
    /\ UNCHANGED mapperVars

\* a call of getParser / getGenerator / hasParser / hasGenerator
Lookup(op, languageName) ==
    /\ pc = "idle"
    /\ call' = [op |-> op, languageName |-> languageName]
    /\ log' = <<>>
    /\ pc' = "done"
    /\ result' = Returned(CASE op = "getParser" -> getParser(languageName)
                            [] op = "getGenerator" -> getGenerator(languageName)
                            [] op = "hasParser" -> hasParser(languageName)
                            [] op = "hasGenerator" -> hasGenerator(languageName))
    /\ UNCHANGED <<registryVars, mapperVars>>

\* a call of getParserLanguages / getGeneratorLanguages
Listing(op) ==
    /\ pc = "idle"
    /\ call' = [op |-> op]
    /\ log' = <<>>
    /\ pc' = "done"
    /\ result' = Returned(CASE op = "getParserLanguages" -> getParserLanguages
                            [] op = "getGeneratorLanguages" -> getGeneratorLanguages)
    /\ UNCHANGED <<registryVars, mapperVars>>

(***************************************************************************)
(* What plugin operations can return (plugin.ts result types)              *)
(***************************************************************************)
Sources == {<<"resource", "{", "}">>}

\* every other diagnostic carries a location
LocationOf(i) == IF i % 2 = 1 THEN Some([line |-> i, column |-> 1]) ELSE None

ValidationErrorItem(i) ==
    [message |-> <<"validation error ", ToString(i)>>, location |-> LocationOf(i)]
ParseErrorItem(i) ==
    [message |-> <<"parse error ", ToString(i)>>, location |-> LocationOf(i),
     severity |-> "error"]
ParseWarningItem(i) ==
    [message |-> <<"parse warning ", ToString(i)>>, location |-> LocationOf(i),
     severity |-> "warning"]
GenerateErrorItem(i) ==
    [message |-> <<"generate error ", ToString(i)>>, severity |-> "error"]
GenerateWarningItem(i) ==
    [message |-> <<"generate warning ", ToString(i)>>, severity |-> "warning"]
UnsupportedFeatureItem(i) ==
    [feature |-> <<"feature ", ToString(i)>>,
     description |-> <<"not supported ", ToString(i)>>,
     location |-> LocationOf(i)]

\* ValidationResult
ValidationResults ==
    { [valid |-> b, errors |-> [i \in 1..n |-> ValidationErrorItem(i)]] :
        b \in BOOLEAN, n \in 0..MaxErrors }

IRDoc == [version |-> <<"1.0">>, resources |-> <<"test-bucket">>]

\* ParseResult
ParseResults ==
    { [success |-> b, ir |-> ir, errors |-> [i \in 1..n |-> ParseErrorItem(i)],
       warnings |-> [i \in 1..m |-> ParseWarningItem(i)]] :
        b \in BOOLEAN, ir \in {None, Some(IRDoc)},
        n \in 0..MaxErrors, m \in 0..MaxWarnings }

\* texts a generator produces: empty, blank, and real text
Texts == { <<>>, <<" ">>, <<"Resources:", " ">> }

\* GenerateResult
GenerateResults ==
    { [success |-> b, output |-> out, errors |-> [i \in 1..n |-> GenerateErrorItem(i)],
       warnings |-> [i \in 1..m |-> GenerateWarningItem(i)],
       unsupportedFeatures |-> [i \in 1..u |-> UnsupportedFeatureItem(i)]] :
        b \in BOOLEAN, out \in {None} \cup {Some(t) : t \in Texts},
        n \in 0..MaxErrors, m \in 0..MaxWarnings, u \in 0..MaxUnsupported }

IsSpace(c) == c \in {" ", "\n"}

RECURSIVE TrimStart(_)
TrimStart(s) == IF s # <<>> /\ IsSpace(Head(s)) THEN TrimStart(Tail(s)) ELSE s

RECURSIVE TrimEnd(_)
TrimEnd(s) ==
    IF s # <<>> /\ IsSpace(s[Len(s)]) THEN TrimEnd(SubSeq(s, 1, Len(s) - 1)) ELSE s

\* the formatters of the test suites: output => output, output.trim(), and
\* one that ends the text with a newline
Formatters == {"same", "trim", "newline"}

FormatWith(formatter, text) ==
    CASE formatter = "same" -> text
      [] formatter = "trim" -> TrimEnd(TrimStart(text))
      [] formatter = "newline" -> TrimEnd(text) \o <<"\n">>

(***************************************************************************)
(* TranslationEngine                                                       *)
(***************************************************************************)
TranslationOptions ==
    { [validateBefore |-> v, formatOutput |-> f] : v \in BOOLEAN, f \in BOOLEAN }

\* a plugin operation invoked by the engine, and what it returned
Invoked(op, plugin, input, returned) ==
    [op |-> op, plugin |-> plugin.id, input |-> input, returned |-> returned]

\* TranslationError
TranslationError(message, phase, details) ==
    [message |-> message, phase |-> phase, details |-> details]

\* errors.map((e) => ({message: e.message, phase, details: e.location}))
WithLocation(diags, phase) ==
    [i \in 1..Len(diags) |->
        TranslationError(diags[i].message, phase, diags[i].location)]

\* errors.map((e) => ({message: e.message, phase}))
WithoutLocation(diags, phase) ==
    [i \in 1..Len(diags) |-> TranslationError(diags[i].message, phase, None)]

UnsupportedMessage(f) ==
    <<"Unsupported feature: ">> \o f.feature \o <<" - ">> \o f.description

UnsupportedWarnings(features) ==
    [i \in 1..Len(features) |->
        TranslationError(UnsupportedMessage(features[i]), "generate",
                         features[i].location)]

\* TranslationResult
TranslationResult(success, output, ir, errors, warnings) ==
    [success |-> success, output |-> output, ir |-> ir,
     errors |-> errors, warnings |-> warnings]

\* the result returned when no parser is registered for sourceLanguage
noParserResult(sourceLanguage) ==
    TranslationResult(FALSE, None, None,
        << TranslationError(<<"No parser found for language: ">> \o sourceLanguage,
                            "parse", None) >>,
        <<>>)

\* mutant: a missing generator reported as a parse-phase error
noGeneratorResult_TaggedParse(targetLanguage) ==
    TranslationResult(FALSE, None, None,
        << TranslationError(<<"No generator found for language: ">> \o targetLanguage,
                            "parse", None) >>,
        <<>>)

\* the result returned when no generator is registered for targetLanguage
noGeneratorResult(targetLanguage) ==
    TranslationResult(FALSE, None, None,
        << TranslationError(<<"No generator found for language: ">> \o targetLanguage,
                            "generate", None) >>,
        <<>>)

\* mutant: validation errors reported as parse-phase errors
validateFailedResult_TaggedParse(validationResult) ==
    TranslationResult(FALSE, None, None,
        WithLocation(validationResult.errors, "parse"), <<>>)

\* the result returned when validateBefore is set and validation fails
validateFailedResult(validationResult) ==
    TranslationResult(FALSE, None, None,
        WithLocation(validationResult.errors, "validate"), <<>>)

\* mutant: the parser's warnings dropped when parsing fails
parseFailedResult_NoWarnings(parseResult) ==
    TranslationResult(FALSE, None, None,
        WithLocation(parseResult.errors, "parse"), <<>>)

\* the result returned when parsing fails
parseFailedResult(parseResult) ==
    TranslationResult(FALSE, None, None,
        WithLocation(parseResult.errors, "parse"),
        WithLocation(parseResult.warnings, "parse"))

\* mutant: the IR not returned when generation fails
generateFailedResult_NoIr(ir, warnings, generateResult) ==
    TranslationResult(FALSE, None, None,
        WithoutLocation(generateResult.errors, "generate"),
        warnings \o WithoutLocation(generateResult.warnings, "generate"))

\* mutant: the parse warnings forgotten when generation fails
generateFailedResult_OnlyGeneratorWarnings(ir, warnings, generateResult) ==
    TranslationResult(FALSE, None, Some(ir),
        WithoutLocation(generateResult.errors, "generate"),
        WithoutLocation(generateResult.warnings, "generate"))

\* the result returned when generation fails
generateFailedResult(ir, warnings, generateResult) ==
    TranslationResult(FALSE, None, Some(ir),
        WithoutLocation(generateResult.errors, "generate"),
        warnings \o WithoutLocation(generateResult.warnings, "generate"))

\* mutant: the unsupported features reported before the generator's warnings
generateWarnings_UnsupportedFirst(warnings, generateResult) ==
    warnings \o UnsupportedWarnings(generateResult.unsupportedFeatures)
             \o WithoutLocation(generateResult.warnings, "generate")

\* the warnings collected once generation has succeeded
generateWarnings(warnings, generateResult) ==
    warnings \o WithoutLocation(generateResult.warnings, "generate")
             \o UnsupportedWarnings(generateResult.unsupportedFeatures)

\* the result returned at the end of translate
successResult(output, ir, warnings) ==
    TranslationResult(TRUE, Some(output), Some(ir), <<>>, warnings)

\* the test "!parseResult.success || !parseResult.ir"
parseFailed(parseResult) == ~parseResult.success \/ parseResult.ir = None

\* the test "!generateResult.success || !generateResult.output"
generateFailed(generateResult) ==
    \/ ~generateResult.success
    \/ generateResult.output = None
    \/ generateResult.output = Some(<<>>)

\* the no-parser result of TranslationEngine.validate
noParserValidation(language) ==
    [valid |-> FALSE,
     errors |-> << [message |-> <<"No parser found for language: ">> \o language,
                    location |-> None] >>]

\* mutant: validity recomputed from the error list instead of passed through
validate_Recomputed(source, language) ==
    LET parser == getParser(language) IN
    IF parser = None
    THEN { [returned |-> noParserValidation(language), log |-> <<>>] }
    ELSE { [returned |-> [valid |-> vr.errors = <<>>, errors |-> vr.errors],
            log |-> << Invoked("validate", parser[1], source, vr) >>] :
              vr \in ValidationResults }

\* TranslationEngine.validate: the outcomes [returned, log] of one call
validate(source, language) ==
    LET parser == getParser(language) IN
    IF parser = None
    THEN { [returned |-> noParserValidation(language), log |-> <<>>] }
    ELSE { [returned |-> vr,
            log |-> << Invoked("validate", parser[1], source, vr) >>] :
              vr \in ValidationResults }

Finish(r, l) ==
    /\ result' = Returned(r)
    /\ log' = l

\* mutant: format is invoked, and the generator's text is returned as it was
translateFormat_Unformatted(generator, options, ir, warnings, generateResult, log0) ==
    IF options.formatOutput
    THEN \E formatter \in Formatters :
           LET output == FormatWith(formatter, generateResult.output[1]) IN
           Finish(successResult(generateResult.output[1], ir, warnings),
                  Append(log0, Invoked("format", generator,
                                       generateResult.output[1], output)))
    ELSE Finish(successResult(generateResult.output[1], ir, warnings), log0)

\* translate from "let output = generateResult.output" on
translateFormat(generator, options, ir, warnings, generateResult, log0) ==
    IF options.formatOutput
    THEN \E formatter \in Formatters :
           LET output == FormatWith(formatter, generateResult.output[1]) IN
           Finish(successResult(output, ir, warnings),
                  Append(log0, Invoked("format", generator,
                                       generateResult.output[1], output)))
    ELSE Finish(successResult(generateResult.output[1], ir, warnings), log0)

\* translate from "Generate target code" on
translateGenerate(generator, options, ir, warnings, log0) ==
    \E generateResult \in GenerateResults :
      LET log1 == Append(log0, Invoked("generate", generator, ir, generateResult)) IN
      IF generateFailed(generateResult)
      THEN Finish(generateFailedResult(ir, warnings, generateResult), log1)
      ELSE translateFormat(generator, options, ir,
                           generateWarnings(warnings, generateResult),
                           generateResult, log1)

\* translate from "Parse source" on
translateParse(parser, generator, source, options, log0) ==
    \E parseResult \in ParseResults :
      LET log1 == Append(log0, Invoked("parse", parser, source, parseResult)) IN
      IF parseFailed(parseResult)
      THEN Finish(parseFailedResult(parseResult), log1)
      ELSE translateGenerate(generator, options, parseResult.ir[1],
                             WithLocation(parseResult.warnings, "parse"), log1)

\* mutant: the source is validated whatever the options say
translate_AlwaysValidates(source, sourceLanguage, targetLanguage, options) ==
    /\ pc = "idle"
    /\ call' = [op |-> "translate", source |-> source,
                sourceLanguage |-> sourceLanguage,
                targetLanguage |-> targetLanguage, options |-> options]
    /\ pc' = "done"
    /\ UNCHANGED <<registryVars, mapperVars>>
    /\ LET parser == getParser(sourceLanguage)
           generator == getGenerator(targetLanguage)
       IN
       IF parser = None
       THEN Finish(noParserResult(sourceLanguage), <<>>)
       ELSE IF generator = None
       THEN Finish(noGeneratorResult(targetLanguage), <<>>)
       ELSE IF options.validateBefore \/ ~options.validateBefore
       THEN \E v \in validate(source, sourceLanguage) :
              IF ~v.returned.valid
              THEN Finish(validateFailedResult(v.returned), v.log)
              ELSE translateParse(parser[1], generator[1], source, options, v.log)
       ELSE translateParse(parser[1], generator[1], source, options, <<>>)

\* TranslationEngine.translate
translate(source, sourceLanguage, targetLanguage, options) ==
    /\ pc = "idle"
    /\ call' = [op |-> "translate", source |-> source,
                sourceLanguage |-> sourceLanguage,
                targetLanguage |-> targetLanguage, options |-> options]
    /\ pc' = "done"
    /\ UNCHANGED <<registryVars, mapperVars>>
    /\ LET parser == getParser(sourceLanguage)
           generator == getGenerator(targetLanguage)
       IN
       IF parser = None
       THEN Finish(noParserResult(sourceLanguage), <<>>)
       ELSE IF generator = None
       THEN Finish(noGeneratorResult(targetLanguage), <<>>)
       ELSE IF options.validateBefore
       THEN \E v \in validate(source, sourceLanguage) :
              IF ~v.returned.valid
              THEN Finish(validateFailedResult(v.returned), v.log)
              ELSE translateParse(parser[1], generator[1], source, options, v.log)
       ELSE translateParse(parser[1], generator[1], source, options, <<>>)

\* a call of TranslationEngine.validate
Validate(source, language) ==
    /\ pc = "idle"
    /\ call' = [op |-> "validate", source |-> source, language |-> language]
    /\ pc' = "done"
    /\ UNCHANGED <<registryVars, mapperVars>>
    /\ \E v \in validate(source, language) : Finish(v.returned, v.log)

\* LanguageInfo
LanguageInfo(name, canParse, canGenerate, fileExtensions, fileExtension) ==
    [name |-> name, canParse |-> canParse, canGenerate |-> canGenerate,
     fileExtensions |-> fileExtensions, fileExtension |-> fileExtension]

\* mutant: a generator's entry replaces the parser's entry for the language
addGenerator_Replacing(languages, langName) ==
    LET generator == getGenerator(langName) IN
    IF generator # None
    THEN MapSet(languages, langName,
                LanguageInfo(langName, FALSE, TRUE, None,
                             Some(generator[1].fileExtension.v)))
    ELSE languages

\* the body of the loop over the generator languages
addGenerator(languages, langName) ==
    LET generator == getGenerator(langName)
        existing == MapGet(languages, langName)
    IN
    IF generator # None
    THEN IF existing # None
         THEN MapSet(languages, langName,
                     [existing[1] EXCEPT
                        !.canGenerate = TRUE,
                        !.fileExtension = Some(generator[1].fileExtension.v)])
         ELSE MapSet(languages, langName,
                     LanguageInfo(langName, FALSE, TRUE, None,
                                  Some(generator[1].fileExtension.v)))
    ELSE languages

\* "for (const langName of this.registry.getParserLanguages())"
RECURSIVE addParsers(_, _)
addParsers(languages, langNames) ==
    IF langNames = <<>>
    THEN languages
    ELSE LET langName == Head(langNames)
             parser == getParser(langName)
         IN addParsers(IF parser # None
                       THEN MapSet(languages, langName,
                                   LanguageInfo(langName, TRUE, FALSE,
                                                Some(parser[1].fileExtensions.v), None))
                       ELSE languages,
                       Tail(langNames))

\* "for (const langName of this.registry.getGeneratorLanguages())"
RECURSIVE addGenerators(_, _)
addGenerators(languages, langNames) ==
    IF langNames = <<>>
    THEN languages
    ELSE addGenerators(addGenerator(languages, Head(langNames)), Tail(langNames))

\* Array.from(languages.values())
MapValues(m) == [i \in 1..Len(m) |-> m[i].value]

\* TranslationEngine.getSupportedLanguages
getSupportedLanguages ==
    MapValues(addGenerators(addParsers(<<>>, getParserLanguages),
                            getGeneratorLanguages))

\* mutant: true as soon as either side is registered
canTranslate_Either(sourceLanguage, targetLanguage) ==
    hasParser(sourceLanguage) \/ hasGenerator(targetLanguage)

\* TranslationEngine.canTranslate
canTranslate(sourceLanguage, targetLanguage) ==
    hasParser(sourceLanguage) /\ hasGenerator(targetLanguage)

\* mutant: the listing is built in the registry's own parser map
GetSupportedLanguages_Aliased ==
    /\ pc = "idle"
    /\ call' = [op |-> "getSupportedLanguages"]
    /\ log' = <<>>
    /\ pc' = "done"
    /\ result' = Returned(getSupportedLanguages)
    /\ parsers' = addGenerators(addParsers(parsers, getParserLanguages),
                                getGeneratorLanguages)
    /\ UNCHANGED <<generators, lastParser, lastGenerator, mapperVars>>

\* a call of TranslationEngine.getSupportedLanguages
GetSupportedLanguages ==
    /\ pc = "idle"
    /\ call' = [op |-> "getSupportedLanguages"]
    /\ log' = <<>>
    /\ pc' = "done"
    /\ result' = Returned(getSupportedLanguages)
    /\ UNCHANGED <<registryVars, mapperVars>>

\* a call of TranslationEngine.canTranslate
CanTranslate(sourceLanguage, targetLanguage) ==
    /\ pc = "idle"
    /\ call' = [op |-> "canTranslate", sourceLanguage |-> sourceLanguage,
                targetLanguage |-> targetLanguage]
    /\ log' = <<>>
    /\ pc' = "done"
    /\ result' = Returned(canTranslate(sourceLanguage, targetLanguage))
    /\ UNCHANGED <<registryVars, mapperVars>>

(***************************************************************************)
(* ResourceTypeMapper (src/core/mapping.ts)                                *)
(*                                                                         *)
(* A property path is a string whose tokens are property names and "."     *)
(* separators.  Objects live in a heap, a sequence of objects addressed by *)
(* position; an object is a function from property names (the parts of a   *)
(* path) to values, and a value is a primitive or a reference to the       *)
(* object at an address, so that two references to one object see each     *)
(* other's writes: Ref(a) when the object is a plain object, ArrayRef(a)   *)
(* when it is an array, whose property names are then its indices.  For    *)
(* both, typeof gives 'object'.  Property names are taken not to be        *)
(* members of Object.prototype, of Array.prototype or of a primitive's     *)
(* wrapper.                                                                *)
(***************************************************************************)
Ref(a) == [t |-> "object", v |-> a]
ArrayRef(a) == [t |-> "arrayObject", v |-> a]
Number(n) == [t |-> "number", v |-> <<n>>]
Boolean(b) == [t |-> "boolean", v |-> <<b>>]
\* the number NaN
NaN == [t |-> "number", v |-> <<>>]

EmptyObject == <<>>

\* obj[key] = val
ObjSet(obj, key, val) ==
    [k \in DOMAIN obj \cup {key} |-> IF k = key THEN val ELSE obj[k]]

\* delete obj[key]
ObjDelete(obj, key) == [k \in DOMAIN obj \ {key} |-> obj[k]]

\* the value a reference stands for, with objects by content: an object is
\* the function from its property names to their values, tagged "tree" when
\* it is a plain object and "list" when it is an array
RECURSIVE Deref(_, _)
Deref(heap, value) ==
    IF value.t \in {"object", "arrayObject"}
    THEN [t |-> IF value.t = "object" THEN "tree" ELSE "list",
          v |-> [k \in DOMAIN heap[value.v] |-> Deref(heap, heap[value.v][k])]]
    ELSE value

\* text.split(separator)
Split(text, separator) ==
    LET at == {i \in 1..Len(text) : text[i] = separator}
        cut(j) == IF j = 0 THEN 0
                  ELSE IF j > Cardinality(at) THEN Len(text) + 1
                  ELSE CHOOSE i \in at : Cardinality({d \in at : d < i}) = j - 1
    IN [j \in 1..(Cardinality(at) + 1) |-> SubSeq(text, cut(j - 1) + 1, cut(j) - 1)]

\* ResourceTypeMapper.getNestedValue from the value current on, along the
\* parts of the path that are left
RECURSIVE getNestedValue(_, _, _)
getNestedValue(heap, current, parts) ==
    IF parts = <<>>
    THEN current
    ELSE IF current.t = "undefined"
    THEN Undefined
    ELSE getNestedValue(heap,
                        IF /\ current.t \in {"object", "arrayObject"}
                           /\ Head(parts) \in DOMAIN heap[current.v]
                        THEN heap[current.v][Head(parts)]
                        ELSE Undefined,
                        Tail(parts))

\* ResourceTypeMapper.setNestedValue from the object at address current on,
\* along the parts of the path that are left: the heap after the write
RECURSIVE setNestedValue(_, _, _, _)
setNestedValue(heap, current, parts, value) ==
    IF Len(parts) = 1
    THEN [heap EXCEPT ![current] = ObjSet(heap[current], parts[1], value)]
    ELSE LET part == Head(parts) IN
         IF \/ part \notin DOMAIN heap[current]
            \/ heap[current][part].t \notin {"object", "arrayObject"}
         THEN LET fresh == Len(heap) + 1 IN
              setNestedValue(
                  Append([heap EXCEPT ![current] = ObjSet(heap[current], part, Ref(fresh))],
                         EmptyObject),
                  fresh, Tail(parts), value)
         ELSE setNestedValue(heap, heap[current][part].v, Tail(parts), value)

\* ResourceTypeMapper.deleteNestedValue from the object at address current
\* on, along the parts of the path that are left: the heap after the delete
RECURSIVE deleteNestedValue(_, _, _)
deleteNestedValue(heap, current, parts) ==
    IF Len(parts) = 1
    THEN [heap EXCEPT ![current] = ObjDelete(heap[current], parts[1])]
    ELSE IF Head(parts) \notin DOMAIN heap[current]
    THEN heap
    ELSE deleteNestedValue(heap, heap[current][Head(parts)].v, Tail(parts))

\* mutant: the names joined as written, without lower-casing
getMappingKey_AsWritten(sourceLanguage, targetLanguage) ==
    sourceLanguage \o <<":">> \o targetLanguage

\* the key of a language pair
getMappingKey(sourceLanguage, targetLanguage) ==
    ToLowerCase(sourceLanguage) \o <<":">> \o ToLowerCase(targetLanguage)

\* PropertyMapping
PropertyMapping(sourcePath, targetPath, valueTransform) ==
    [sourcePath |-> sourcePath, targetPath |-> targetPath,
     valueTransform |-> valueTransform]

\* ResourceTypeMapping
ResourceTypeMapping(sourceType, targetType, propertyMappings, transformations) ==
    [sourceType |-> sourceType, targetType |-> targetType,
     propertyMappings |-> propertyMappings, transformations |-> transformations]

\* the mappings registered in the model (mapping.test.ts).  A value
\* transform and a transformation are functions, named here by what they do:
\* "times1024" is (value: number) => value * 1024, "enabledToStatus"
\* replaces enabled: true by status: 'active', "statusToState" replaces
\* status: 'active' by state: 'running', "step1" and "step2" each add a
\* property of that name
bucketMapping ==
    ResourceTypeMapping(<<"aws_s3_bucket">>, <<"AWS::S3::Bucket">>,
        << PropertyMapping(<<"bucket">>, <<"BucketName">>, None),
           PropertyMapping(<<"acl">>, <<"AccessControl">>, None) >>,
        <<>>)

ResourceTypeMappings ==
    { bucketMapping,
      ResourceTypeMapping(<<"AWS_S3_BUCKET">>, <<"Upper::Bucket">>,
          << PropertyMapping(<<"Bucket">>, <<"Name">>, None) >>,
          <<>>),
      ResourceTypeMapping(<<"test_resource">>, <<"Test::Resource">>,
          << PropertyMapping(<<"config", ".", "name">>, <<"Name">>, None),
             PropertyMapping(<<"config", ".", "value">>, <<"Settings", ".", "Value">>,
                             None) >>,
          <<>>),
      ResourceTypeMapping(<<"test_resource">>, <<"Test::Sized">>,
          << PropertyMapping(<<"size">>, <<"Size">>, Some("times1024")) >>,
          << "enabledToStatus" >>),
      ResourceTypeMapping(<<"test_resource">>, <<"Test::Steps">>,
          <<>>,
          << "step1", "step2" >>),
      ResourceTypeMapping(<<"test_resource">>, <<"Test::Single">>,
          << PropertyMapping(<<"config", ".", "value">>, <<"Settings", ".", "Value">>,
                             Some("times1024")) >>,
          <<>>),
      ResourceTypeMapping(<<"test_resource">>, <<"Test::Ordered">>,
          << PropertyMapping(<<"active">>, <<"flag">>, None),
             PropertyMapping(<<"flag">>, <<"enabled">>, None) >>,
          << "enabledToStatus", "statusToState" >>) }

\* the resource types callers ask for
ResourceTypes ==
    {<<"aws_s3_bucket">>, <<"AWS_S3_BUCKET">>, <<"test_resource">>, <<"unknown_type">>}

\* the language pairs mappings are registered under, as written by the
\* caller; a language name is any string, one holding ":" included
MappingRegistrations ==
    { <<s, cf, m>> : s \in {tf, Tf}, m \in ResourceTypeMappings }
      \cup { <<tf \o <<":">> \o xx, cf, bucketMapping>> }

\* the language pairs callers look up
MappingSources == {tf, TF, cf}
MappingTargets == {cf, Cf, tf, xx \o <<":">> \o cf}

\* the property objects callers pass: a heap whose object 1 is the argument
PropertyHeaps ==
    { << (<<"bucket">> :> Str(<<"my-bucket">>)) @@ (<<"acl">> :> Str(<<"private">>)) >>,
      << (<<"bucket">> :> Str(<<"my-bucket">>)) @@ (<<"tags">> :> Ref(2)),
         (<<"env">> :> Str(<<"prod">>)) >>,
      << (<<"bucket">> :> Str(<<"my-bucket">>))
           @@ (<<"BucketName">> :> Str(<<"other-bucket">>)) >>,
      << (<<"Bucket">> :> Str(<<"my-bucket">>)) >>,
      << (<<"config">> :> Ref(2)),
         (<<"name">> :> Str(<<"test">>)) @@ (<<"value">> :> Number(42)) >>,
      << (<<"size">> :> Number(10)) @@ (<<"enabled">> :> Boolean(TRUE))
           @@ (<<"name">> :> Str(<<"test">>)) >>,
      << (<<"config">> :> Ref(2)) @@ (<<"Settings">> :> Str(<<"on">>)),
         (<<"value">> :> Number(42)) >>,
      << (<<"config">> :> Ref(2)) @@ (<<"Settings">> :> Ref(3)),
         (<<"value">> :> Number(42)),
         (<<"Mode">> :> Str(<<"fast">>)) >>,
      << (<<"config">> :> Ref(2)) @@ (<<"Settings">> :> ArrayRef(3)),
         (<<"value">> :> Number(42)),
         (<<"0">> :> Str(<<"x">>)) >>,
      << (<<"active">> :> Boolean(TRUE)) @@ (<<"name">> :> Str(<<"test">>)) >>,
      << EmptyObject >> }

\* ResourceTypeMapper.getMapping
getMapping(sourceLanguage, targetLanguage, sourceType) ==
    LET key == getMappingKey(sourceLanguage, targetLanguage)
        languageMappings == MapGet(mappings, key)
    IN
    IF languageMappings = None
    THEN None
    ELSE MapGet(languageMappings[1], sourceType)

\* ResourceTypeMapper.hasMapping
hasMapping(sourceLanguage, targetLanguage, sourceType) ==
    getMapping(sourceLanguage, targetLanguage, sourceType) # None

\* ResourceTypeMapper.mapResourceType: Undefined when there is no mapping
mapResourceType(sourceLanguage, targetLanguage, sourceType) ==
    LET mapping == getMapping(sourceLanguage, targetLanguage, sourceType) IN
    IF mapping = None THEN Undefined ELSE Str(mapping[1].targetType)

\* ResourceTypeMapper.getAllMappings
getAllMappings(sourceLanguage, targetLanguage) ==
    LET languageMappings == MapGet(mappings, getMappingKey(sourceLanguage, targetLanguage))
    IN IF languageMappings = None THEN <<>> ELSE MapValues(languageMappings[1])

\* "for (const propMapping of mapping.propertyMappings)" of mapProperties
RECURSIVE applyPropertyMappings(_, _, _)
applyPropertyMappings(heap, obj, propertyMappings) ==
    IF propertyMappings = <<>>
    THEN heap
    ELSE LET propMapping == Head(propertyMappings)
             sourcePath == Split(propMapping.sourcePath, ".")
             sourceValue == getNestedValue(heap, Ref(obj), sourcePath)
             targetValue ==
                 IF propMapping.valueTransform = None
                 THEN sourceValue
                 ELSE CASE propMapping.valueTransform[1] = "times1024" ->
                        IF sourceValue.t = "number" /\ sourceValue # NaN
                        THEN Number(sourceValue.v[1] * 1024)
                        ELSE NaN
         IN applyPropertyMappings(
                IF sourceValue.t # "undefined"
                THEN setNestedValue(deleteNestedValue(heap, obj, sourcePath),
                                    obj, Split(propMapping.targetPath, "."), targetValue)
                ELSE heap,
                obj, Tail(propertyMappings))

\* "for (const transform of mapping.transformations)" of mapProperties: each
\* transformation returns a new object built from a copy of the properties
RECURSIVE applyTransformations(_, _, _)
applyTransformations(heap, obj, transformations) ==
    IF transformations = <<>>
    THEN [heap |-> heap, obj |-> obj]
    ELSE LET props == heap[obj]
             transformed ==
                 CASE Head(transformations) = "enabledToStatus" ->
                        IF /\ <<"enabled">> \in DOMAIN props
                           /\ props[<<"enabled">>].t = "boolean"
                           /\ props[<<"enabled">>] = Boolean(TRUE)
                        THEN ObjDelete(ObjSet(props, <<"status">>, Str(<<"active">>)),
                                       <<"enabled">>)
                        ELSE props
                   [] Head(transformations) = "statusToState" ->
                        IF /\ <<"status">> \in DOMAIN props
                           /\ props[<<"status">>].t = "string"
                           /\ props[<<"status">>] = Str(<<"active">>)
                        THEN ObjDelete(ObjSet(props, <<"state">>, Str(<<"running">>)),
                                       <<"status">>)
                        ELSE props
                   [] Head(transformations) = "step1" ->
                        ObjSet(props, <<"step1">>, Boolean(TRUE))
                   [] Head(transformations) = "step2" ->
                        ObjSet(props, <<"step2">>, Boolean(TRUE))
         IN applyTransformations(Append(heap, transformed), Len(heap) + 1,
                                 Tail(transformations))

\* mutant: the transformations applied before the PropertyMappings
mapProperties_TransformationsFirst(sourceLanguage, targetLanguage, sourceType, heap, properties) ==
    LET mapping == getMapping(sourceLanguage, targetLanguage, sourceType) IN
    IF mapping = None
    THEN [heap |-> heap, obj |-> properties]
    ELSE LET copy == Len(heap) + 1
             copied == Append(heap, heap[properties])
             transformed == applyTransformations(copied, copy, mapping[1].transformations)
         IN [heap |-> applyPropertyMappings(transformed.heap, transformed.obj,
                                            mapping[1].propertyMappings),
             obj |-> transformed.obj]

\* ResourceTypeMapper.mapProperties on the object at address properties:
\* the heap after the call and the address of the object returned
mapProperties(sourceLanguage, targetLanguage, sourceType, heap, properties) ==
    LET mapping == getMapping(sourceLanguage, targetLanguage, sourceType) IN
    IF mapping = None
    THEN [heap |-> heap, obj |-> properties]
    ELSE LET copy == Len(heap) + 1
             copied == Append(heap, heap[properties])
         IN applyTransformations(
                applyPropertyMappings(copied, copy, mapping[1].propertyMappings),
                copy, mapping[1].transformations)

\* ResourceTypeMapper.registerMapping
registerMapping(sourceLanguage, targetLanguage, mapping) ==
    /\ pc = "idle"
    /\ call' = [op |-> "registerMapping", sourceLanguage |-> sourceLanguage,
                targetLanguage |-> targetLanguage, mapping |-> mapping]
    /\ log' = <<>>
    /\ pc' = "done"
    /\ LET key == getMappingKey(sourceLanguage, targetLanguage)
           created == IF ~MapHas(mappings, key) THEN MapSet(mappings, key, <<>>)
                      ELSE mappings
           languageMappings == MapGet(created, key)[1]
       IN mappings' = MapSet(created, key,
                             MapSet(languageMappings, mapping.sourceType, mapping))
    /\ lastMapping' = ObjSet(lastMapping,
                             <<ToLowerCase(sourceLanguage), ToLowerCase(targetLanguage),
                               mapping.sourceType>>,
                             mapping)
    /\ result' = Returned(None)
    /\ UNCHANGED registryVars

\* ResourceTypeMapper.clear
clearMappings ==
    /\ pc = "idle"
    /\ call' = [op |-> "clearMappings"]
    /\ log' = <<>>
    /\ pc' = "done"
    /\ mappings' = <<>>
    /\ lastMapping' = <<>>
    /\ result' = Returned(None)
    /\ UNCHANGED registryVars

\* a call of getMapping / hasMapping / mapResourceType
MappingLookup(op, sourceLanguage, targetLanguage, sourceType) ==
    /\ pc = "idle"
    /\ call' = [op |-> op, sourceLanguage |-> sourceLanguage,
                targetLanguage |-> targetLanguage, sourceType |-> sourceType]
    /\ log' = <<>>
    /\ pc' = "done"
    /\ result' = Returned(
         CASE op = "getMapping" -> getMapping(sourceLanguage, targetLanguage, sourceType)
           [] op = "hasMapping" -> hasMapping(sourceLanguage, targetLanguage, sourceType)
           [] op = "mapResourceType" ->
                mapResourceType(sourceLanguage, targetLanguage, sourceType))
    /\ UNCHANGED <<registryVars, mapperVars>>

\* a call of getAllMappings
GetAllMappings(sourceLanguage, targetLanguage) ==
    /\ pc = "idle"
    /\ call' = [op |-> "getAllMappings", sourceLanguage |-> sourceLanguage,
                targetLanguage |-> targetLanguage]
    /\ log' = <<>>
    /\ pc' = "done"
    /\ result' = Returned(getAllMappings(sourceLanguage, targetLanguage))
    /\ UNCHANGED <<registryVars, mapperVars>>

\* a call of mapProperties with object 1 of heap as its properties argument:
\* the call keeps the argument as passed (by content); the result holds the
\* returned object (by content), whether it is the argument object itself,
\* and the argument object as the caller finds it afterwards
MapProperties(sourceLanguage, targetLanguage, sourceType, heap) ==
    /\ pc = "idle"
    /\ call' = [op |-> "mapProperties", sourceLanguage |-> sourceLanguage,
                targetLanguage |-> targetLanguage, sourceType |-> sourceType,
                properties |-> Deref(heap, Ref(1))]
    /\ log' = <<>>
    /\ pc' = "done"
    /\ LET after == mapProperties(sourceLanguage, targetLanguage, sourceType, heap, 1)
       IN result' = Returned([properties |-> Deref(after.heap, Ref(after.obj)),
                              sameObject |-> after.obj = 1,
                              argument |-> Deref(after.heap, Ref(1))])
    /\ UNCHANGED <<registryVars, mapperVars>>

(***************************************************************************)
(* TerraformParser (src/plugins/terraform-parser.ts, kept in               *)
(* src/plugins/cloudformation-generator.test.ts from line 478)             *)
(*                                                                         *)
(* A source is a JavaScript value: a string, or what an untyped caller may *)
(* pass instead (undefined, a number).  The tokens of a source string are  *)
(* words, the spaces " " and "\n", and the punctuation marks below, each a *)
(* token of its own.                                                       *)
(***************************************************************************)
\* \w+: a token that is a word
IsWord(token) ==
    token \notin {" ", "\n", "\"", "{", "}", "=", "#", "//", "[", "]", ",", ".", "(", ")"}

\* text.trim()
Trim(text) == TrimEnd(TrimStart(text))

\* the number of occurrences of token in text
Count(text, token) == Cardinality({i \in 1..Len(text) : text[i] = token})

\* text.indexOf(token), counted from 1; 0 when there is none
IndexOf(text, token) ==
    IF \E i \in 1..Len(text) : text[i] = token
    THEN CHOOSE i \in 1..Len(text) : text[i] = token /\ \A j \in 1..(i - 1) : text[j] # token
    ELSE 0

\* the first position from i on that holds no space (past the end if none)
SkipSpaces(text, i) ==
    IF \E j \in i..Len(text) : ~IsSpace(text[j])
    THEN CHOOSE j \in i..Len(text) : ~IsSpace(text[j]) /\ \A k \in i..(j - 1) : IsSpace(text[k])
    ELSE Len(text) + 1

\* "([^"]+)" at position i: the text between the quotes and the position after
Quoted(text, i) ==
    IF /\ i <= Len(text) /\ text[i] = "\""
       /\ \E k \in (i + 2)..Len(text) : text[k] = "\"" /\ \A j \in (i + 1)..(k - 1) : text[j] # "\""
    THEN LET k == CHOOSE k \in (i + 2)..Len(text) :
                    text[k] = "\"" /\ \A j \in (i + 1)..(k - 1) : text[j] # "\""
         IN [matched |-> TRUE, text |-> SubSeq(text, i + 1, k - 1), next |-> k + 1]
    ELSE [matched |-> FALSE, text |-> <<>>, next |-> i]

\* text.replace(/#[^\n]*/g, '').replace(/\/\/[^\n]*/g, ''): every comment
\* removed up to the end of its line
RECURSIVE WithoutComments(_)
WithoutComments(text) ==
    IF text = <<>>
    THEN <<>>
    ELSE IF Head(text) \in {"#", "//"}
    THEN LET eol == IndexOf(text, "\n") IN
         IF eol = 0 THEN <<>> ELSE WithoutComments(SubSeq(text, eol, Len(text)))
    ELSE <<Head(text)>> \o WithoutComments(Tail(text))

\* TerraformParser.validate
TerraformParser_validate(source) ==
    IF Falsy(source)
    THEN Returned([valid |-> TRUE, errors |-> <<>>])
    ELSE IF source.t # "string"
    THEN Thrown("TypeError", <<"source.trim is not a function">>)
    ELSE IF Len(Trim(source.v)) = 0
    THEN Returned([valid |-> TRUE, errors |-> <<>>])
    ELSE LET \* /(resource|variable|output|module|data|locals|terraform)\s+/
             hasBlocks ==
                 \E i \in 1..(Len(source.v) - 1) :
                    /\ source.v[i] \in {"resource", "variable", "output", "module",
                                        "data", "locals", "terraform"}
                    /\ IsSpace(source.v[i + 1])
             braces == IF Count(source.v, "{") # Count(source.v, "}")
                       THEN << [message |-> <<"Unbalanced braces in configuration">>,
                                location |-> Some([line |-> 1, column |-> 1])] >>
                       ELSE <<>>
             blocks == IF ~hasBlocks /\ Len(Trim(WithoutComments(source.v))) > 0
                       THEN << [message |-> <<"No valid Terraform blocks found">>,
                                location |-> Some([line |-> 1, column |-> 1])] >>
                       ELSE <<>>
             errors == braces \o blocks
         IN Returned([valid |-> Len(errors) = 0, errors |-> errors])

\* line.match(regex) of findBlocks:
\* /^resource\s+"([^"]+)"\s+"([^"]+)"\s*{/ for resources,
\* /^blockType\s+"([^"]+)"\s*{/ for the other block types
MatchBlock(line, blockType) ==
    LET first == Quoted(line, SkipSpaces(line, 2))
        second == Quoted(line, SkipSpaces(line, first.next))
        last == IF blockType = "resource" THEN second ELSE first
        brace == SkipSpaces(line, last.next)
    IN
    IF /\ Len(line) > 0 /\ line[1] = blockType
       /\ SkipSpaces(line, 2) > 2
       /\ first.matched
       /\ blockType = "resource" => (SkipSpaces(line, first.next) > first.next
                                       /\ second.matched)
       /\ brace <= Len(line) /\ line[brace] = "{"
    THEN [matched |-> TRUE,
          type |-> IF blockType = "resource" THEN Some(first.text) ELSE None,
          name |-> last.text]
    ELSE [matched |-> FALSE, type |-> None, name |-> <<>>]

\* "while (j < lines.length && braceCount > 0)" of findBlocks: the lines
\* gathered from line j on, each followed by a line break
RECURSIVE blockLines(_, _, _)
blockLines(lines, j, braceCount) ==
    IF j <= Len(lines) /\ braceCount > 0
    THEN lines[j] \o <<"\n">>
           \o blockLines(lines, j + 1,
                         braceCount + Count(lines[j], "{") - Count(lines[j], "}"))
    ELSE <<>>

\* "for (let i = 0; i < lines.length; i++)" of findBlocks: the blocks declared
\* on line i and after it
RECURSIVE blocksFrom(_, _, _)
blocksFrom(lines, i, blockType) ==
    IF i > Len(lines)
    THEN <<>>
    ELSE LET line == Trim(lines[i])
             match == MatchBlock(line, blockType)
             content == SubSeq(line, IndexOf(line, "{") + 1, Len(line)) \o <<"\n">>
                          \o blockLines(lines, i + 1, 1)
         IN (IF match.matched
             THEN << [content |-> Trim(content), line |-> i,
                      name |-> match.name, type |-> match.type] >>
             ELSE <<>>)
              \o blocksFrom(lines, i + 1, blockType)

\* TerraformParser.findBlocks
findBlocks(source, blockType) ==
    IF source.t # "string"
    THEN Thrown("TypeError", <<"Cannot read properties of undefined (reading 'split')">>)
    ELSE Returned(blocksFrom(Split(source.v, "\n"), 1, blockType))

\* IRExpression
Expression(exprType, value) ==
    [t |-> "expression", v |-> [exprType |-> exprType, value |-> value]]

\* TerraformParser.parseExpression of a string
parseExpression(value) ==
    IF Count(value, ".") > 0
    THEN Expression("reference", value)
    ELSE IF Count(value, "(") > 0 /\ Count(value, ")") > 0
    THEN Expression("function", value)
    ELSE Expression("literal", value)

IsQuotedText(text) == Len(text) > 0 /\ Head(text) = "\"" /\ text[Len(text)] = "\""

\* TerraformParser.parseValue; the numerals of the model are "42" and "10"
RECURSIVE parseValue(_)
parseValue(raw) ==
    LET \* raw.replace(/#.*$/, '').replace(/\/\/.*$/, '').trim()
        hash == IndexOf(raw, "#")
        first == IF hash = 0 THEN raw ELSE SubSeq(raw, 1, hash - 1)
        slashes == IndexOf(first, "//")
        parsed(value) ==
            IF IsQuotedText(value)
            THEN Str(SubSeq(value, 2, Len(value) - 1))
            ELSE IF Len(value) = 1 /\ value[1] \in {"42", "10"}
            THEN Number(CASE value[1] = "42" -> 42 [] value[1] = "10" -> 10)
            ELSE IF value = <<"true">>
            THEN Boolean(TRUE)
            ELSE IF value = <<"false">>
            THEN Boolean(FALSE)
            ELSE IF Len(value) > 0 /\ Head(value) = "[" /\ value[Len(value)] = "]"
            THEN LET items == Split(SubSeq(value, 2, Len(value) - 1), ",") IN
                 Arr([i \in 1..Len(items) |->
                        LET trimmed == Trim(items[i]) IN
                        IF IsQuotedText(trimmed)
                        THEN Str(SubSeq(trimmed, 2, Len(trimmed) - 1))
                        ELSE parseValue(trimmed)])
            ELSE parseExpression(value)
    IN parsed(Trim(IF slashes = 0 THEN first ELSE SubSeq(first, 1, slashes - 1)))

\* "for (const line of lines)" of parseProperties, with /^(\w+)\s*=\s*(.+?)$/
RECURSIVE propertyLines(_, _)
propertyLines(properties, lines) ==
    IF lines = <<>>
    THEN properties
    ELSE LET trimmed == Trim(Head(lines))
             equals == SkipSpaces(trimmed, 2)
             value == SkipSpaces(trimmed, equals + 1)
         IN propertyLines(
                IF Len(trimmed) = 0 \/ Head(trimmed) \in {"#", "//"}
                THEN properties
                ELSE IF /\ IsWord(trimmed[1])
                        /\ equals <= Len(trimmed) /\ trimmed[equals] = "="
                        /\ value <= Len(trimmed)
                THEN ObjSet(properties, <<trimmed[1]>>,
                            parseValue(SubSeq(trimmed, value, Len(trimmed))))
                ELSE properties,
                Tail(lines))

\* TerraformParser.parseProperties
parseProperties(content) == propertyLines(EmptyObject, Split(content, "\n"))

SourceLocation(line) == [sourceLocation |-> [line |-> line, column |-> 1]]

\* TerraformParser.parseResource, with extractDependsOn
parseResource(block) ==
    LET \* String(dep)
        stringOf(dep) == IF dep.t = "string" THEN dep.v
                         ELSE IF dep.t \in {"number", "boolean"}
                         THEN <<ToString(dep.v[1])>>
                         ELSE <<"[object Object]">>
        node(parsed) ==
            LET listed == <<"depends_on">> \in DOMAIN parsed
                            /\ parsed[<<"depends_on">>].t = "array"
            IN [type |-> "resource",
                resourceType |-> IF block.type # None /\ block.type[1] # <<>>
                                 THEN block.type[1] ELSE <<"unknown">>,
                name |-> block.name,
                properties |-> IF listed THEN ObjDelete(parsed, <<"depends_on">>)
                               ELSE parsed,
                dependsOn |-> IF listed
                              THEN [i \in 1..Len(parsed[<<"depends_on">>].v) |->
                                      stringOf(parsed[<<"depends_on">>].v[i])]
                              ELSE <<>>,
                metadata |-> SourceLocation(block.line)]
    IN Returned(node(parseProperties(block.content)))

\* properties[key], undefined when absent
Property(properties, key) ==
    IF key \in DOMAIN properties THEN properties[key] ELSE Undefined

\* value || fallback
OrElse(value, fallback) ==
    IF \/ value.t = "undefined"
       \/ (value.t = "string" /\ value.v = <<>>)
       \/ (value.t = "boolean" /\ value.v = <<FALSE>>)
       \/ (value.t = "number" /\ value.v \in {<<>>, <<0>>})
    THEN fallback ELSE value

\* TerraformParser.parseVariable
parseVariable(block) ==
    LET node(properties) ==
            [type |-> "variable",
             name |-> block.name,
             valueType |-> OrElse(Property(properties, <<"type">>), Str(<<"string">>)),
             defaultValue |-> Property(properties, <<"default">>),
             description |-> Property(properties, <<"description">>),
             metadata |-> SourceLocation(block.line)]
    IN Returned(node(parseProperties(block.content)))

\* TerraformParser.parseOutput: parseExpression of a value that is not a
\* string yields a literal holding it
parseOutput(block) ==
    LET expression(value) == IF value.t = "string"
                             THEN parseExpression(value.v)
                             ELSE Expression("literal", value)
        node(properties) ==
            [type |-> "output",
             name |-> block.name,
             value |-> expression(Property(properties, <<"value">>)),
             description |-> Property(properties, <<"description">>),
             metadata |-> SourceLocation(block.line)]
    IN Returned(node(parseProperties(block.content)))

\* TerraformParser.parseModule
parseModule(block) ==
    LET node(properties) ==
            [type |-> "module",
             name |-> block.name,
             source |-> OrElse(Property(properties, <<"source">>), Str(<<>>)),
             inputs |-> ObjDelete(properties, <<"source">>),
             metadata |-> SourceLocation(block.line)]
    IN Returned(node(parseProperties(block.content)))

\* the body of try in "for (const match of matches) { try { ... } }"
parseBlock(blockType, block) ==
    CASE blockType = "resource" -> parseResource(block)
      [] blockType = "variable" -> parseVariable(block)
      [] blockType = "output" -> parseOutput(block)
      [] blockType = "module" -> parseModule(block)

\* the nodes pushed by one of those loops, given the outcome of each turn
parsedNodes(outcomes) ==
    LET select(kept) == [i \in 1..Len(kept) |-> kept[i].outcome.value]
    IN select(SelectSeq(outcomes, LAMBDA o : ~o.outcome.thrown))

\* the errors pushed by the catch clause of one of those loops
parsedErrors(blockType, outcomes) ==
    LET select(failed) ==
            [i \in 1..Len(failed) |->
               [message |-> <<"Failed to parse ", blockType, ": ">>
                              \o failed[i].outcome.value.message,
                location |-> Some([line |-> failed[i].line, column |-> 1]),
                severity |-> "error"]]
    IN select(SelectSeq(outcomes, LAMBDA o : o.outcome.thrown))

\* the result of the outer catch clause of parse
parseErrorResult(thrown) ==
    [success |-> FALSE, ir |-> None,
     errors |-> << [message |-> <<"Parse error: ">> \o thrown.value.message,
                    location |-> None, severity |-> "error"] >>,
     warnings |-> <<>>]

\* parse from "const ir: IRDocument" on, for a source that passed validation
parseBlocks(source) ==
    LET blockTypes == <<"resource", "variable", "output", "module">>
        \* the outcome of each turn of the loop over the blocks of a type
        turns(blockType, matches) ==
            [i \in 1..Len(matches) |->
               [outcome |-> parseBlock(blockType, matches[i]),
                line |-> matches[i].line]]
        finish(outcomes) ==
            LET errors == parsedErrors("resource", outcomes[1])
                            \o parsedErrors("variable", outcomes[2])
                            \o parsedErrors("output", outcomes[3])
                            \o parsedErrors("module", outcomes[4])
                ir == [version |-> <<"1.0">>,
                       resources |-> parsedNodes(outcomes[1]),
                       variables |-> parsedNodes(outcomes[2]),
                       outputs |-> parsedNodes(outcomes[3]),
                       modules |-> parsedNodes(outcomes[4])]
            IN
            IF Len(errors) > 0
            THEN Returned([success |-> FALSE, ir |-> None, errors |-> errors,
                           warnings |-> <<>>])
            ELSE Returned([success |-> TRUE, ir |-> Some(ir), errors |-> <<>>,
                           warnings |-> <<>>])
        found(matches) ==
            IF matches[1].thrown
            THEN Returned(parseErrorResult(matches[1]))
            ELSE finish([k \in 1..4 |-> turns(blockTypes[k], matches[k].value)])
    IN found([k \in 1..4 |-> findBlocks(source, blockTypes[k])])

\* the result parse returns for a source that failed validation
invalidSourceResult(validationResult) ==
    [success |-> FALSE, ir |-> None,
     errors |-> [i \in 1..Len(validationResult.errors) |->
                   [message |-> validationResult.errors[i].message,
                    location |-> validationResult.errors[i].location,
                    severity |-> "error"]],
     warnings |-> <<>>]

\* mutant: the validation runs before the try block is entered
TerraformParser_parse_ValidatedOutsideTry(source) ==
    LET validationResult == TerraformParser_validate(source) IN
    IF validationResult.thrown
    THEN validationResult
    ELSE IF ~validationResult.value.valid
    THEN Returned(invalidSourceResult(validationResult.value))
    ELSE parseBlocks(source)

\* TerraformParser.parse
TerraformParser_parse(source) ==
    LET validationResult == TerraformParser_validate(source) IN
    IF validationResult.thrown
    THEN Returned(parseErrorResult(validationResult))
    ELSE IF ~validationResult.value.valid
    THEN Returned(invalidSourceResult(validationResult.value))
    ELSE parseBlocks(source)

\* lines joined by line breaks
RECURSIVE JoinLines(_)
JoinLines(lines) ==
    IF lines = <<>> THEN <<>>
    ELSE IF Len(lines) = 1 THEN lines[1]
    ELSE lines[1] \o <<"\n">> \o JoinLines(Tail(lines))

\* the sources handed to the parser: every text of up to MaxLines of the
\* lines below (a block written on one line, the opening line of a block,
\* an assignment, a closing line, ...), and the values an untyped caller can
\* pass for a string
TerraformSources ==
    LET SourceLines ==
          { <<"resource", " ", "\"", "aws_s3_bucket", "\"", " ", "\"", "a", "\"", " ", "{", "}">>,
            <<"resource", " ", "\"", "aws_s3_bucket", "\"", " ", "\"", "b", "\"", " ", "{">>,
            <<"variable", " ", "\"", "region", "\"", " ", "{">>,
            <<" ", "bucket", " ", "=", " ", "\"", "my-bucket", "\"">>,
            <<"}">>,
            <<"#", " ", "comment">>,
            <<"data">>,
            <<>> }
    IN { Str(JoinLines(lines)) :
           lines \in UNION { [1..n -> SourceLines] : n \in 0..MaxLines } }
         \cup {Undefined, Num}

\* a call of TerraformParser.parse
Parse(source) ==
    /\ pc = "idle"
    /\ call' = [op |-> "parse", source |-> source]
    /\ log' = <<>>
    /\ pc' = "done"
    /\ result' = TerraformParser_parse(source)
    /\ UNCHANGED <<registryVars, mapperVars>>

\* a call of TerraformParser.validate
ValidateSource(source) ==
    /\ pc = "idle"
    /\ call' = [op |-> "validateSource", source |-> source]
    /\ log' = <<>>
    /\ pc' = "done"
    /\ result' = TerraformParser_validate(source)
    /\ UNCHANGED <<registryVars, mapperVars>>

\* the call returns to its caller; nothing of it is kept but the registry and
\* the mappings
Return ==
    /\ pc = "done"
    /\ pc' = "idle"
    /\ call' = NoCall
    /\ log' = <<>>
    /\ result' = NoResult
    /\ UNCHANGED <<registryVars, mapperVars>>

Init ==
    /\ parsers = <<>>
    /\ generators = <<>>
    /\ pc = "idle"
    /\ call = NoCall
    /\ log = <<>>
    /\ result = NoResult
    /\ lastParser = [k \in Keys |-> None]
    /\ lastGenerator = [k \in Keys |-> None]
    /\ mappings = <<>>
    /\ lastMapping = <<>>

\* the registry on its own, with every plugin object
NextRegistry ==
    \/ \E plugin \in ParserPlugins : registerParser(plugin)
    \/ \E plugin \in GeneratorPlugins : registerGenerator(plugin)
    \/ \E plugin \in Plugins : registerPlugin(plugin)
    \/ clear
    \/ \E op \in {"getParser", "getGenerator", "hasParser", "hasGenerator"},
          languageName \in LookupNames : Lookup(op, languageName)
    \/ \E op \in {"getParserLanguages", "getGeneratorLanguages"} : Listing(op)
    \/ Return

SpecRegistry == Init /\ [][NextRegistry]_vars

\* the mapper on its own
NextMapping ==
    \/ \E r \in MappingRegistrations : registerMapping(r[1], r[2], r[3])
    \/ clearMappings
    \/ \E op \in {"getMapping", "hasMapping", "mapResourceType"},
          sourceLanguage \in MappingSources,
          targetLanguage \in MappingTargets, sourceType \in ResourceTypes :
            MappingLookup(op, sourceLanguage, targetLanguage, sourceType)
    \/ \E sourceLanguage \in MappingSources, targetLanguage \in MappingTargets :
          GetAllMappings(sourceLanguage, targetLanguage)
    \/ \E sourceLanguage \in MappingSources, targetLanguage \in MappingTargets,
          sourceType \in ResourceTypes, heap \in PropertyHeaps :
            MapProperties(sourceLanguage, targetLanguage, sourceType, heap)
    \/ Return

SpecMapping == Init /\ [][NextMapping]_vars

\* the Terraform parser on its own
NextParser ==
    \/ pc = "idle" /\ \E source \in TerraformSources : Parse(source)
    \/ pc = "idle" /\ \E source \in TerraformSources : ValidateSource(source)
    \/ Return

SpecParser == Init /\ [][NextParser]_vars

\* the engine over its registry
Next ==
    \/ \E plugin \in EngineParsers : registerParser(plugin)
    \/ \E plugin \in EngineGenerators : registerGenerator(plugin)
    \/ clear
    \/ \E source \in Sources, sourceLanguage \in LookupNames,
          targetLanguage \in LookupNames, options \in TranslationOptions :
            translate(source, sourceLanguage, targetLanguage, options)
    \/ \E source \in Sources, language \in LookupNames : Validate(source, language)
    \/ GetSupportedLanguages
    \/ \E sourceLanguage \in LookupNames, targetLanguage \in LookupNames :
          CanTranslate(sourceLanguage, targetLanguage)
    \/ \E op \in {"getParser", "getGenerator", "hasParser", "hasGenerator"},
          languageName \in LookupNames : Lookup(op, languageName)
    \/ \E op \in {"getParserLanguages", "getGeneratorLanguages"} : Listing(op)
    \/ Return

Spec == Init /\ [][Next]_vars

(***************************************************************************)
(* Observations of a finished call                                         *)
(***************************************************************************)
Phases == {"parse", "generate", "validate"}

TranslateDone == pc = "done" /\ call.op = "translate"
ValidateDone == pc = "done" /\ call.op = "validate"

\* the call invoked the plugin operation op
WasInvoked(op) == \E i \in 1..Len(log) : log[i].op = op

\* what the plugin operation op returned to the call
ReturnOf(op) == log[CHOOSE i \in 1..Len(log) : log[i].op = op].returned

\* out is diags, one entry per diagnostic in the same order, each tagged phase
Propagated(diags, phase, out) ==
    /\ Len(out) = Len(diags)
    /\ \A i \in 1..Len(diags) :
         out[i].message = diags[i].message /\ out[i].phase = phase

\* the entries from+1 .. from+n of a list
Slice(list, from, n) == SubSeq(list, from + 1, from + n)

(***************************************************************************)
(* C1: translate returns either success with a non-empty output, or        *)
(* failure with at least one error carrying a phase tag; never success     *)
(* with an empty output.                                                   *)
(***************************************************************************)
C1_SuccessWithOutputOrTaggedError ==
    TranslateDone =>
      LET r == result.value IN
      \/ r.success /\ r.output # None /\ r.output[1] # <<>>
      \/ /\ ~r.success
         /\ Len(r.errors) >= 1
         /\ \A i \in 1..Len(r.errors) : r.errors[i].phase \in Phases

(***************************************************************************)
(* C2: when no parser is registered for sourceLanguage or no generator for *)
(* targetLanguage, translate fails with exactly one error that names the   *)
(* missing language and is tagged 'parse' (missing parser) or 'generate'   *)
(* (missing generator), with no warnings, and no plugin operation is       *)
(* invoked.                                                                *)
(***************************************************************************)
C2_LookupFailure ==
    TranslateDone =>
      LET r == result.value
          noParser == lastParser[ToLowerCase(call.sourceLanguage)] = None
          noGenerator == lastGenerator[ToLowerCase(call.targetLanguage)] = None
      IN
      (noParser \/ noGenerator) =>
        /\ ~r.success
        /\ Len(r.errors) = 1
        /\ r.warnings = <<>>
        /\ log = <<>>
        /\ IF noParser
           THEN /\ r.errors[1].phase = "parse"
                /\ Includes(r.errors[1].message, call.sourceLanguage)
           ELSE /\ r.errors[1].phase = "generate"
                /\ Includes(r.errors[1].message, call.targetLanguage)

\* a translate call that found its parser but no generator
C2_Witness ==
    /\ TranslateDone
    /\ lastParser[ToLowerCase(call.sourceLanguage)] # None
    /\ lastGenerator[ToLowerCase(call.targetLanguage)] = None
    /\ result.value.errors[1].phase = "generate"
C4_ParseFailure ==
    (TranslateDone /\ WasInvoked("parse")) =>
      LET r == result.value
          parsed == ReturnOf("parse")
      IN
      (~parsed.success \/ parsed.ir = None) =>
        /\ ~r.success
        /\ Propagated(parsed.errors, "parse", r.errors)
        /\ Propagated(parsed.warnings, "parse", r.warnings)
        /\ r.ir = None
        /\ r.output = None
        /\ ~WasInvoked("generate")
        /\ ~WasInvoked("format")

\* a parse that fails with errors and warnings although it produced an IR
C4_Witness ==
    /\ TranslateDone
    /\ WasInvoked("parse")
    /\ ~ReturnOf("parse").success
    /\ ReturnOf("parse").ir # None
    /\ Len(result.value.errors) = MaxErrors
    /\ Len(result.value.warnings) = MaxWarnings

(***************************************************************************)
(* C5: the translate result carries an IR if and only if the Parse phase   *)
(* succeeded, and that IR is the document the parser produced; the IR is   *)
(* still returned when the Generate phase fails.                           *)
(***************************************************************************)
C5_IrIffParsed ==
    TranslateDone =>
      LET r == result.value
          parseSucceeded ==
            /\ WasInvoked("parse")
            /\ ReturnOf("parse").success
            /\ ReturnOf("parse").ir # None
      IN
      /\ (r.ir # None) <=> parseSucceeded
      /\ parseSucceeded => r.ir = ReturnOf("parse").ir

\* the IR returned by a call whose generation failed
C5_Witness ==
    /\ TranslateDone
    /\ WasInvoked("generate")
    /\ ~ReturnOf("generate").success
    /\ ~result.value.success
    /\ result.value.ir = Some(IRDoc)

(***************************************************************************)
(* C6: when generation fails after a successful parse, translate fails     *)
(* with the generator's errors tagged 'generate'; its warnings are the     *)
(* parse warnings (tagged 'parse') followed by the generator's warnings    *)
(* (tagged 'generate'); no output is returned and format is not invoked.   *)
(***************************************************************************)
C6_GenerateFailure ==
    (TranslateDone /\ WasInvoked("generate")) =>
      LET r == result.value
          parsed == ReturnOf("parse")
          generated == ReturnOf("generate")
          np == Len(parsed.warnings)
          ng == Len(generated.warnings)
      IN
      (~generated.success \/ generated.output = None \/ generated.output = Some(<<>>)) =>
        /\ ~r.success
        /\ Propagated(generated.errors, "generate", r.errors)
        /\ Len(r.warnings) = np + ng
        /\ Propagated(parsed.warnings, "parse", Slice(r.warnings, 0, np))
        /\ Propagated(generated.warnings, "generate", Slice(r.warnings, np, ng))
        /\ r.output = None
        /\ ~WasInvoked("format")

\* a failed generation with warnings of both phases, format having been asked for
C6_Witness ==
    /\ TranslateDone
    /\ call.options.formatOutput
    /\ WasInvoked("generate")
    /\ ~ReturnOf("generate").success
    /\ Len(ReturnOf("parse").warnings) = MaxWarnings
    /\ Len(ReturnOf("generate").warnings) = MaxWarnings
    /\ Len(result.value.errors) = MaxErrors
    /\ Len(result.value.warnings) = 2 * MaxWarnings

(***************************************************************************)
(* C7: unsupported features never block success: when the generator        *)
(* returns success with output, translate succeeds with no errors, and its *)
(* warnings are, in order, the parse warnings (tagged 'parse'), the        *)
(* generator warnings (tagged 'generate') and one 'generate' warning per   *)
(* unsupported feature whose message holds the feature name and its        *)
(* description.                                                            *)
(***************************************************************************)
C7_UnsupportedNeverBlocks ==
    (TranslateDone /\ WasInvoked("generate")) =>
      LET r == result.value
          parsed == ReturnOf("parse")
          generated == ReturnOf("generate")
          np == Len(parsed.warnings)
          ng == Len(generated.warnings)
          nu == Len(generated.unsupportedFeatures)
      IN
      (generated.success /\ generated.output # None /\ generated.output # Some(<<>>)) =>
        /\ r.success
        /\ r.errors = <<>>
        /\ Len(r.warnings) = np + ng + nu
        /\ Propagated(parsed.warnings, "parse", Slice(r.warnings, 0, np))
        /\ Propagated(generated.warnings, "generate", Slice(r.warnings, np, ng))
        /\ \A i \in 1..nu :
             LET w == r.warnings[np + ng + i]
                 f == generated.unsupportedFeatures[i]
             IN /\ w.phase = "generate"
                /\ Includes(w.message, f.feature)
                /\ Includes(w.message, f.description)

\* a successful call with warnings of both phases and unsupported features
C7_Witness ==
    /\ TranslateDone
    /\ result.value.success
    /\ Len(ReturnOf("parse").warnings) = MaxWarnings
    /\ Len(ReturnOf("generate").warnings) = MaxWarnings
    /\ Len(ReturnOf("generate").unsupportedFeatures) = MaxUnsupported
    /\ Len(result.value.warnings) = 2 * MaxWarnings + MaxUnsupported

(***************************************************************************)
(* C8: in every translate call that invokes the generator, each            *)
(* unsupported feature the generator reports appears in the result as a    *)
(* 'generate' warning referencing the feature name, whatever the outcome   *)
(* of the call.                                                            *)
(***************************************************************************)
C8_UnsupportedAlwaysSurfaced ==
    (TranslateDone /\ WasInvoked("generate")) =>
      LET r == result.value
          features == ReturnOf("generate").unsupportedFeatures
      IN
      \A i \in 1..Len(features) :
        \E j \in 1..Len(r.warnings) :
          /\ r.warnings[j].phase = "generate"
          /\ Includes(r.warnings[j].message, features[i].feature)

(***************************************************************************)
(* C9: validate(source, language) invokes no plugin operation but the      *)
(* parser's validate and needs no generator: with a parser registered for  *)
(* the language it returns what that parser's validate returned, and with  *)
(* none it returns valid=false with an error naming the language.          *)
(***************************************************************************)
C9_ValidateOnly ==
    ValidateDone =>
      LET registered == lastParser[ToLowerCase(call.language)] IN
      /\ ~result.thrown
      /\ \A i \in 1..Len(log) : log[i].op = "validate"
      /\ IF registered # None
         THEN /\ Len(log) = 1
              /\ log[1].plugin = registered[1].id
              /\ log[1].input = call.source
              /\ result.value = log[1].returned
         ELSE /\ log = <<>>
              /\ ~result.value.valid
              /\ Len(result.value.errors) >= 1
              /\ Includes(result.value.errors[1].message, call.language)

\* a validation answered by the parser while no generator is registered at all
C9_Witness ==
    /\ ValidateDone
    /\ generators = <<>>
    /\ Len(log) = 1
    /\ ~result.value.valid
    /\ Len(result.value.errors) = MaxErrors
(***************************************************************************)
(* C10: after any sequence of registerParser / registerGenerator / clear   *)
(* calls, getParser(L) (resp. getGenerator(L)) returns the plugin of the   *)
(* most recent successful registration under the case-normalized name L    *)
(* since the last clear(), and nothing if there is none; registering a     *)
(* plugin object that is already the registered one changes no lookup and  *)
(* no listing.                                                             *)
(***************************************************************************)
C10_ResolvesToLatest ==
    \A name \in PluginNames \cup LookupNames :
      /\ getParser(name) = lastParser[ToLowerCase(name)]
      /\ getGenerator(name) = lastGenerator[ToLowerCase(name)]

C10_SameObjectAgain ==
    (pc = "idle" /\ pc' = "done" /\ ~result'.thrown) =>
      /\ (call'.op = "registerParser"
            /\ getParser(call'.plugin.languageName.v) = Some(call'.plugin))
           => (parsers' = parsers /\ generators' = generators)
      /\ (call'.op = "registerGenerator"
            /\ getGenerator(call'.plugin.languageName.v) = Some(call'.plugin))
           => (parsers' = parsers /\ generators' = generators)

C10_LatestRegistrationWins ==
    [](C10_ResolvesToLatest) /\ [][C10_SameObjectAgain]_vars

\* parser p2 registered for "Tf" after a parser for "cf" was, under the key
\* "tf" that was in the registry before either: it replaced the plugin there
C10_Witness ==
    /\ pc = "done"
    /\ call.op = "registerParser"
    /\ call.plugin.id = "p2"
    /\ ~result.thrown
    /\ getParserLanguages = <<tf, cf>>
    /\ getParser(TF) = Some(call.plugin)
    /\ getGenerator(cf) # None

(***************************************************************************)
(* C11: registering a plugin that violates a registration requirement      *)
(* (languageName not a non-empty string; for a parser fileExtensions not a *)
(* non-empty array, or parse or validate not callable; for a generator     *)
(* fileExtension not a non-empty string, or generate or format not         *)
(* callable) raises PluginValidationError and leaves the registry as it    *)
(* was: every parser and generator registered before, the one under the    *)
(* same name included, still resolves.                                     *)
(***************************************************************************)
C11_NonEmptyString(x) == x.t = "string" /\ Len(x.v) > 0

C11_ViolatesRequirement(op, plugin) ==
    \/ ~C11_NonEmptyString(plugin.languageName)
    \/ /\ op = "registerParser"
       /\ \/ ~(plugin.fileExtensions.t = "array" /\ Len(plugin.fileExtensions.v) > 0)
          \/ plugin.parse.t # "function"
          \/ plugin.validate.t # "function"
    \/ /\ op = "registerGenerator"
       /\ \/ ~C11_NonEmptyString(plugin.fileExtension)
          \/ plugin.generate.t # "function"
          \/ plugin.format.t # "function"

C11_RejectedStep ==
    (/\ pc = "idle" /\ pc' = "done"
     /\ call'.op \in {"registerParser", "registerGenerator"}
     /\ C11_ViolatesRequirement(call'.op, call'.plugin))
      => /\ result'.thrown
         /\ result'.value.name = "PluginValidationError"
         /\ parsers' = parsers
         /\ generators' = generators
         /\ \A name \in PluginNames \cup LookupNames :
              /\ getParser(name)' = getParser(name)
              /\ getGenerator(name)' = getGenerator(name)

C11_InvalidRegistrationRejected == [][C11_RejectedStep]_vars

\* a parser without validate() was refused under the name "cf" while a
\* parser and a generator for "cf" were registered, and both still resolve
C11_Witness ==
    /\ pc = "done"
    /\ call.op = "registerParser"
    /\ call.plugin.id = "p12"
    /\ result.thrown
    /\ result.value.name = "PluginValidationError"
    /\ getParser(cf) # None
    /\ getGenerator(cf) # None

(***************************************************************************)
(* C12: lookup is case-insensitive: for every language name n and every    *)
(* other casing n' of it, hasParser(n') = hasParser(n) and getParser(n')   *)
(* = getParser(n), and hasParser(n) is true exactly when getParser(n)      *)
(* returns a plugin; likewise for generators.                              *)
(***************************************************************************)
\* the names of the model, grouped by language: each set holds the casings
\* of one name
C12_Casings == { {tf, Tf, TF}, {cf, Cf}, {xx} }

C12_CaseInsensitiveLookup ==
    \A casings \in C12_Casings : \A n \in casings :
      /\ hasParser(n) <=> (getParser(n) # None)
      /\ hasGenerator(n) <=> (getGenerator(n) # None)
      /\ \A n2 \in casings :
           /\ hasParser(n2) = hasParser(n)
           /\ getParser(n2) = getParser(n)
           /\ hasGenerator(n2) = hasGenerator(n)
           /\ getGenerator(n2) = getGenerator(n)

\* getParser("TF") returned the parser that was registered as "Tf", while
\* no generator is registered for any casing of "cf"
C12_Witness ==
    /\ pc = "done"
    /\ call.op = "getParser"
    /\ call.languageName = TF
    /\ result.value # None
    /\ result.value[1].languageName = Str(Tf)
    /\ getParser(tf) = result.value
    /\ ~hasGenerator(Cf)

(***************************************************************************)
(* C13: after any sequence of registrations and clears,                    *)
(* getParserLanguages() returns the registered parser keys                 *)
(* (case-normalized, each exactly once) in registration order, and         *)
(* getGeneratorLanguages() likewise, independently; after clear() both are *)
(* empty.                                                                  *)
(***************************************************************************)
C13_Range(list) == {list[i] : i \in 1..Len(list)}

C13_NoDuplicates(list) ==
    \A i \in 1..Len(list) : \A j \in 1..Len(list) : list[i] = list[j] => i = j

\* the listings hold exactly the keys registered since the last clear()
C13_RegisteredKeysOnce ==
    /\ C13_NoDuplicates(getParserLanguages)
    /\ C13_NoDuplicates(getGeneratorLanguages)
    /\ C13_Range(getParserLanguages) = {k \in Keys : lastParser[k] # None}
    /\ C13_Range(getGeneratorLanguages) = {k \in Keys : lastGenerator[k] # None}

\* a list after key is registered: a new key goes last, a known key stays
C13_Registered(list, key) ==
    IF key \in C13_Range(list) THEN list ELSE Append(list, key)

\* the slot a registration call stores its plugin in: registerPlugin stores
\* a plugin that has parse and validate as a parser, any other as a generator
C13_Slot(op, plugin) ==
    IF op = "registerParser" THEN "parser"
    ELSE IF op = "registerGenerator" THEN "generator"
    ELSE IF op = "registerPlugin"
    THEN (IF {"parse", "validate"} \subseteq DOMAIN plugin THEN "parser" ELSE "generator")
    ELSE "none"

C13_RegistersIn(slot) ==
    /\ pc = "idle" /\ pc' = "done" /\ ~result'.thrown
    /\ call'.op \in {"registerParser", "registerGenerator", "registerPlugin"}
    /\ C13_Slot(call'.op, call'.plugin) = slot

C13_ListingStep ==
    IF C13_RegistersIn("parser")
    THEN /\ getParserLanguages' =
              C13_Registered(getParserLanguages, ToLowerCase(call'.plugin.languageName.v))
         /\ getGeneratorLanguages' = getGeneratorLanguages
    ELSE IF C13_RegistersIn("generator")
    THEN /\ getGeneratorLanguages' =
              C13_Registered(getGeneratorLanguages,
                             ToLowerCase(call'.plugin.languageName.v))
         /\ getParserLanguages' = getParserLanguages
    ELSE IF pc = "idle" /\ pc' = "done" /\ call'.op = "clear"
    THEN getParserLanguages' = <<>> /\ getGeneratorLanguages' = <<>>
    ELSE /\ getParserLanguages' = getParserLanguages
         /\ getGeneratorLanguages' = getGeneratorLanguages

C13_ReturnedListing ==
    /\ (pc = "done" /\ call.op = "getParserLanguages")
         => result.value = getParserLanguages
    /\ (pc = "done" /\ call.op = "getGeneratorLanguages")
         => result.value = getGeneratorLanguages

C13_ListingInRegistrationOrder ==
    [](C13_RegisteredKeysOnce /\ C13_ReturnedListing) /\ [][C13_ListingStep]_vars

\* getParserLanguages() returned "cf" before "tf" although the parser under
\* "tf" is the one registered as "Tf", while the generators are listed the
\* other way round
C13_Witness ==
    /\ pc = "done"
    /\ call.op = "getParserLanguages"
    /\ result.value = <<cf, tf>>
    /\ lastParser[tf] # None
    /\ lastParser[tf][1].id = "p2"
    /\ getGeneratorLanguages = <<tf, cf>>

(***************************************************************************)
(* C14: getSupportedLanguages() returns exactly one entry per language     *)
(* name that has a parser or a generator; an entry has canParse true       *)
(* exactly when a parser is registered for the name and canGenerate true   *)
(* exactly when a generator is, with fileExtensions taken from the parser  *)
(* and fileExtension from the generator; a language with one side only is  *)
(* listed with the other flag false, and no other name is listed.          *)
(***************************************************************************)
C14_Entries(infos, k) == {i \in 1..Len(infos) : infos[i].name = k}

C14_EntryOf(info) ==
    LET parser == lastParser[info.name]
        generator == lastGenerator[info.name]
    IN
    /\ info.canParse <=> (parser # None)
    /\ info.canGenerate <=> (generator # None)
    /\ info.fileExtensions =
         (IF parser # None THEN Some(parser[1].fileExtensions.v) ELSE None)
    /\ info.fileExtension =
         (IF generator # None THEN Some(generator[1].fileExtension.v) ELSE None)

C14_SupportedLanguages ==
    (pc = "done" /\ call.op = "getSupportedLanguages") =>
      LET infos == result.value IN
      /\ \A i \in 1..Len(infos) : infos[i].name \in Keys /\ C14_EntryOf(infos[i])
      /\ \A k \in Keys :
           Cardinality(C14_Entries(infos, k)) =
             (IF lastParser[k] # None \/ lastGenerator[k] # None THEN 1 ELSE 0)

\* two languages listed: "tf" with a parser and a generator, "cf" with a
\* generator only
C14_Witness ==
    /\ pc = "done"
    /\ call.op = "getSupportedLanguages"
    /\ Len(result.value) = 2
    /\ result.value[1].name = tf
    /\ result.value[1].canParse /\ result.value[1].canGenerate
    /\ result.value[1].fileExtensions = Some(<<".tf", ".tfvars">>)
    /\ result.value[2].name = cf
    /\ ~result.value[2].canParse /\ result.value[2].canGenerate

(***************************************************************************)
(* C15: canTranslate(s, t) is true if and only if a parser is registered   *)
(* for s and a generator is registered for t; equivalently,                *)
(* translate(source, s, t) fails in the Lookup phase exactly when          *)
(* canTranslate(s, t) is false.                                            *)
(***************************************************************************)
\* the finished translate call failed before any plugin operation ran, with
\* the single error of a missing parser or generator
C15_LookupFailed ==
    /\ ~result.value.success
    /\ log = <<>>
    /\ Len(result.value.errors) = 1
    /\ Head(result.value.errors[1].message) \in
         {"No parser found for language: ", "No generator found for language: "}

C15_CanTranslateIffLookupSucceeds ==
    /\ (pc = "done" /\ call.op = "canTranslate") =>
         (result.value <=>
            (/\ lastParser[ToLowerCase(call.sourceLanguage)] # None
             /\ lastGenerator[ToLowerCase(call.targetLanguage)] # None))
    /\ TranslateDone =>
         (C15_LookupFailed <=>
            ~canTranslate(call.sourceLanguage, call.targetLanguage))

\* canTranslate("TF", "cf") answered true with a parser registered for "tf"
\* and a generator for "cf", and no generator for "tf"
C15_Witness ==
    /\ pc = "done"
    /\ call.op = "canTranslate"
    /\ call.sourceLanguage = TF
    /\ call.targetLanguage = cf
    /\ result.value = TRUE
    /\ ~hasGenerator(tf)

(***************************************************************************)
(* C19: the registry is changed only by registerParser, registerGenerator  *)
(* (registerPlugin) and clear; translate, validate, getSupportedLanguages, *)
(* canTranslate and the registry's get / has / list operations leave the   *)
(* registered parsers and generators as they were, whatever the outcome of *)
(* the call.                                                               *)
(***************************************************************************)
C19_ReadOnlyOps ==
    {"translate", "validate", "getSupportedLanguages", "canTranslate",
     "getParser", "getGenerator", "hasParser", "hasGenerator",
     "getParserLanguages", "getGeneratorLanguages"}

C19_FrameStep ==
    /\ (pc = "idle" /\ pc' = "done" /\ call'.op \in C19_ReadOnlyOps)
         => (parsers' = parsers /\ generators' = generators)
    /\ (parsers' # parsers \/ generators' # generators)
         => (/\ pc = "idle" /\ pc' = "done"
             /\ call'.op \in {"registerParser", "registerGenerator", "clear"})

C19_OnlyRegistrationMutates == [][C19_FrameStep]_vars

\* a translate that failed after running the parser and the generator, over
\* a registry holding the parser registered as "Tf" and two generators
C19_Witness ==
    /\ TranslateDone
    /\ ~result.value.success
    /\ WasInvoked("parse") /\ WasInvoked("generate")
    /\ getParser(tf) # None
    /\ getParser(tf)[1].id = "p2"
    /\ getGeneratorLanguages = <<cf, tf>>

(***************************************************************************)
(* Observations of a finished mapper call                                  *)
(***************************************************************************)
MapPropertiesDone == pc = "done" /\ call.op = "mapProperties"

\* the mapping registered last for a triple, if any
RegisteredFor(sourceKey, targetKey, sourceType) ==
    IF <<sourceKey, targetKey, sourceType>> \in DOMAIN lastMapping
    THEN Some(lastMapping[<<sourceKey, targetKey, sourceType>>])
    ELSE None

\* the mapping registered last for the triple of the finished call, if any
RegisteredMapping ==
    RegisteredFor(ToLowerCase(call.sourceLanguage), ToLowerCase(call.targetLanguage),
                  call.sourceType)

\* the value found in an object (by content) along the property names parts
RECURSIVE TreeAt(_, _)
TreeAt(tree, parts) ==
    IF parts = <<>>
    THEN tree
    ELSE IF tree.t = "tree" /\ Head(parts) \in DOMAIN tree.v
    THEN TreeAt(tree.v[Head(parts)], Tail(parts))
    ELSE Undefined

(***************************************************************************)
(* C16 (as stated): mapProperties returns the input properties unchanged   *)
(* whenever no mapping is registered for the (sourceLang, targetLang,      *)
(* sourceType) triple, and mapResourceType returns undefined for that      *)
(* triple without raising an error.                                        *)
(***************************************************************************)
C16_IdentityWithoutMapping ==
    /\ (MapPropertiesDone /\ RegisteredMapping = None) =>
         /\ ~result.thrown
         /\ result.value.properties = call.properties
         /\ result.value.argument = call.properties
    /\ (pc = "done" /\ call.op = "mapResourceType" /\ RegisteredMapping = None) =>
         /\ ~result.thrown
         /\ result.value.t = "undefined"

(***************************************************************************)
(* C17: for every property mapping registered for a triple and every input *)
(* property set, the result of mapProperties contains every source         *)
(* property: a property addressed by a PropertyMapping is present under    *)
(* its mapped target path, and every unmapped property is present verbatim *)
(* under its original path; no property silently disappears.  (Stated for  *)
(* mappings without value transforms and without transformations.)         *)
(***************************************************************************)
C17_PlainMapping(mapping) ==
    /\ mapping.transformations = <<>>
    /\ \A i \in 1..Len(mapping.propertyMappings) :
         mapping.propertyMappings[i].valueTransform = None

\* the top-level property key is addressed by no PropertyMapping
C17_Unmapped(mapping, key) ==
    \A i \in 1..Len(mapping.propertyMappings) :
      Head(Split(mapping.propertyMappings[i].sourcePath, ".")) # key

C17_NoPropertyDisappears ==
    (MapPropertiesDone /\ RegisteredMapping # None
       /\ C17_PlainMapping(RegisteredMapping[1])) =>
      LET mapping == RegisteredMapping[1]
          source == call.properties
          target == result.value.properties
      IN
      /\ \A i \in 1..Len(mapping.propertyMappings) :
           LET pm == mapping.propertyMappings[i]
               sourceValue == TreeAt(source, Split(pm.sourcePath, "."))
           IN sourceValue.t # "undefined"
                => TreeAt(target, Split(pm.targetPath, ".")) = sourceValue
      /\ \A key \in DOMAIN source.v :
           C17_Unmapped(mapping, key)
             => (key \in DOMAIN target.v /\ target.v[key] = source.v[key])

(***************************************************************************)
(* C18: mapping registration and lookup (registerMapping, getMapping,      *)
(* hasMapping, mapResourceType, mapProperties) are case-insensitive on the *)
(* source and target language names only: a mapping registered under one   *)
(* casing of the language names is found under every other casing, while a *)
(* lookup whose resource type string differs from the registered           *)
(* sourceType only in case finds no mapping, and property paths are        *)
(* matched case-sensitively.                                               *)
(***************************************************************************)
\* the languages of the model: the name mappings are recorded under, and the
\* casings of it that callers use
C18_Languages == { <<tf, {tf, Tf, TF}>>, <<cf, {cf, Cf}>> }

\* every lookup, under whichever casing of the two language names, answers
\* with the mapping registered last for exactly the resource type asked for;
\* mapProperties returns a new object exactly when it found a mapping
C18_LookupByLanguageAnyCasing ==
    \A source \in C18_Languages, target \in C18_Languages :
      (/\ pc = "done"
       /\ call.op \in {"getMapping", "hasMapping", "mapResourceType", "mapProperties"}
       /\ call.sourceLanguage \in source[2]
       /\ call.targetLanguage \in target[2])
        => LET registered == RegisteredFor(source[1], target[1], call.sourceType) IN
           CASE call.op = "getMapping" -> result.value = registered
             [] call.op = "hasMapping" -> result.value <=> (registered # None)
             [] call.op = "mapResourceType" ->
                  result.value = (IF registered # None
                                  THEN Str(registered[1].targetType)
                                  ELSE Undefined)
             [] call.op = "mapProperties" ->
                  result.value.sameObject <=> (registered = None)

\* a property whose name differs from a sourcePath only in case is not moved:
\* when no sourcePath of the mapping resolves in the input as written, the
\* property mappings change nothing
C18_PathsAsWritten ==
    (MapPropertiesDone /\ RegisteredMapping # None
       /\ RegisteredMapping[1].transformations = <<>>
       /\ \A i \in 1..Len(RegisteredMapping[1].propertyMappings) :
            TreeAt(call.properties,
                   Split(RegisteredMapping[1].propertyMappings[i].sourcePath, ".")).t
              = "undefined")
      => result.value.properties = call.properties

C18_CaseInsensitiveOnLanguagesOnly ==
    C18_LookupByLanguageAnyCasing /\ C18_PathsAsWritten

\* mapProperties("TF", "Cf", "aws_s3_bucket", {Bucket: ...}) found the mapping
\* registered under another casing of the languages and left "Bucket" where
\* it was, while no mapping answers for "AWS_S3_BUCKET"
C18_Witness ==
    /\ MapPropertiesDone
    /\ call.sourceLanguage = TF /\ call.targetLanguage = Cf
    /\ call.sourceType = <<"aws_s3_bucket">>
    /\ RegisteredMapping = Some(bucketMapping)
    /\ <<"Bucket">> \in DOMAIN call.properties.v
    /\ <<"Bucket">> \in DOMAIN result.value.properties.v
    /\ ~result.value.sameObject
    /\ ~hasMapping(TF, Cf, <<"AWS_S3_BUCKET">>)

(***************************************************************************)
(* C20: TerraformParser.parse never throws, whatever its input; every      *)
(* failure is returned as structured errors, and in every result it        *)
(* returns success is true if and only if an IR is present and the error   *)
(* list is empty.                                                          *)
(***************************************************************************)
C20_StructuredError(error) ==
    /\ Len(error.message) > 0
    /\ error.severity = "error"

C20_ParseNeverThrows ==
    (pc = "done" /\ call.op = "parse") =>
      /\ ~result.thrown
      /\ result.value.success <=>
           (result.value.ir # None /\ result.value.errors = <<>>)
      /\ ~result.value.success =>
           /\ Len(result.value.errors) > 0
           /\ \A i \in 1..Len(result.value.errors) :
                C20_StructuredError(result.value.errors[i])

\* parse was handed a number instead of a string: the TypeError raised by
\* the validation came back as one "Parse error" of a failed result
C20_Witness ==
    /\ pc = "done"
    /\ call.op = "parse"
    /\ call.source.t = "number"
    /\ ~result.thrown
    /\ ~result.value.success
    /\ result.value.ir = None
    /\ Len(result.value.errors) = 1
    /\ Head(result.value.errors[1].message) = "Parse error: "

(***************************************************************************)
(* C21 (as stated): TerraformParser.validate, the validation-only mode, on *)
(* a source whose braces are mismatched (a closing brace with no opening   *)
(* brace before it, or an opening brace that is never closed) returns      *)
(* valid=false with at least one error carrying a line/column location,    *)
(* and no generation call is made.                                         *)
(***************************************************************************)
\* the nesting depth after the first i tokens of text
C21_Depth(text, i) ==
    Cardinality({j \in 1..i : text[j] = "{"}) - Cardinality({j \in 1..i : text[j] = "}"})

C21_Mismatched(text) ==
    \/ C21_Depth(text, Len(text)) # 0
    \/ \E i \in 1..Len(text) : C21_Depth(text, i) < 0

C21_MismatchedDelimitersRejected ==
    (/\ pc = "done" /\ call.op = "validateSource"
     /\ call.source.t = "string" /\ C21_Mismatched(call.source.v))
      => /\ ~result.thrown
         /\ ~result.value.valid
         /\ \E i \in 1..Len(result.value.errors) :
              result.value.errors[i].location # None
         /\ \A i \in 1..Len(log) : log[i].op # "generate"

(***************************************************************************)
(* C22: in translate, the generator's format operation is applied to the   *)
(* generated text if and only if the formatOutput option is set and the    *)
(* Generate phase succeeded, and the returned output is then what format   *)
(* returned; otherwise an output that is returned is the generator's text  *)
(* unchanged.  Whether or not format runs, the success, errors and         *)
(* warnings of the call are those fixed by the parser's and the            *)
(* generator's results.                                                    *)
(***************************************************************************)
C22_Generated ==
    /\ WasInvoked("generate")
    /\ ReturnOf("generate").success
    /\ ReturnOf("generate").output \notin {None, Some(<<>>)}

C22_FormatCalls == {i \in 1..Len(log) : log[i].op = "format"}

C22_FormatOnlyWhenRequested ==
    TranslateDone =>
      /\ WasInvoked("format") <=> (call.options.formatOutput /\ C22_Generated)
      /\ \A i \in C22_FormatCalls :
           /\ C22_FormatCalls = {i}
           /\ log[i].input = ReturnOf("generate").output[1]
           /\ result.value.output = Some(log[i].returned)
      /\ (~WasInvoked("format") /\ result.value.output # None) =>
           result.value.output = ReturnOf("generate").output
      /\ C22_Generated =>
           /\ result.value.success
           /\ result.value.errors = <<>>
           /\ result.value.warnings =
                WithLocation(ReturnOf("parse").warnings, "parse")
                  \o WithoutLocation(ReturnOf("generate").warnings, "generate")
                  \o UnsupportedWarnings(ReturnOf("generate").unsupportedFeatures)

\* a call with formatOutput set whose formatter changed the generated text:
\* the changed text is the output, and the warnings are all there
C22_Witness ==
    /\ TranslateDone
    /\ call.options.formatOutput
    /\ WasInvoked("format")
    /\ ReturnOf("format") # ReturnOf("generate").output[1]
    /\ result.value.output = Some(ReturnOf("format"))
    /\ result.value.success
    /\ Len(result.value.warnings) = 2 * MaxWarnings + MaxUnsupported

(***************************************************************************)
(* C23: in every translate call the plugin operations are invoked          *)
(* strictly in the order validate (only if validateBefore is set), parse,  *)
(* generate, format (only if formatOutput is set), each at most once, and  *)
(* an operation is invoked only if the lookup and every earlier operation  *)
(* of the call succeeded; the call ends in Done, having run every          *)
(* operation asked for, or in the Failed terminal of Lookup, Validate,     *)
(* Parse or Generate, having stopped at the operation that failed.         *)
(***************************************************************************)
\* the operations a call with these options runs when nothing fails
C23_Phases ==
    (IF call.options.validateBefore THEN <<"validate">> ELSE <<>>)
      \o <<"parse", "generate">>
      \o (IF call.options.formatOutput THEN <<"format">> ELSE <<>>)

\* the plugin operation logged in e succeeded, as the engine tests it
C23_Succeeded(e) ==
    CASE e.op = "validate" -> e.returned.valid
      [] e.op = "parse" -> e.returned.success /\ e.returned.ir # None
      [] e.op = "generate" ->
           e.returned.success /\ e.returned.output \notin {None, Some(<<>>)}
      [] e.op = "format" -> TRUE

C23_LookupSucceeded ==
    hasParser(call.sourceLanguage) /\ hasGenerator(call.targetLanguage)

C23_PhasesInOrder ==
    TranslateDone =>
      /\ ~result.thrown
      /\ Len(log) <= Len(C23_Phases)
      /\ \A i \in 1..Len(log) : log[i].op = C23_Phases[i]
      /\ \A i \in 1..(Len(log) - 1) : C23_Succeeded(log[i])
      /\ log # <<>> => C23_LookupSucceeded
      /\ result.value.success <=>
           (Len(log) = Len(C23_Phases) /\ C23_Succeeded(log[Len(log)]))
      /\ ~result.value.success =>
           IF log = <<>>
           THEN ~C23_LookupSucceeded
           ELSE /\ ~C23_Succeeded(log[Len(log)])
                /\ log[Len(log)].op \in {"validate", "parse", "generate"}

\* a call that ran all four operations, in order
C23_Witness ==
    /\ TranslateDone
    /\ call.options.validateBefore
    /\ call.options.formatOutput
    /\ [i \in 1..Len(log) |-> log[i].op] = <<"validate", "parse", "generate", "format">>
    /\ result.value.success

(***************************************************************************)
(* C24 (as stated): in mapProperties, a single PropertyMapping whose       *)
(* sourcePath is present deletes the value from its source location,       *)
(* applies the optional value transform, and writes the result at          *)
(* targetPath, creating intermediate mapping levels as needed and          *)
(* overwriting any non-mapping value found along the way; a                *)
(* PropertyMapping whose sourcePath is missing is skipped, leaving the     *)
(* properties unchanged and raising no error.  (Observed on mappings made  *)
(* of one PropertyMapping and no transformation.)                          *)
(***************************************************************************)
\* the property set tree without the value at the path parts
RECURSIVE C24_Deleted(_, _)
C24_Deleted(tree, parts) ==
    IF Len(parts) = 1
    THEN [tree EXCEPT !.v = ObjDelete(tree.v, parts[1])]
    ELSE IF Head(parts) \in DOMAIN tree.v /\ tree.v[Head(parts)].t = "tree"
    THEN [tree EXCEPT !.v = ObjSet(tree.v, Head(parts),
                                   C24_Deleted(tree.v[Head(parts)], Tail(parts)))]
    ELSE tree

\* the property set tree with value written at the path parts: a level that
\* is missing is created, a value on the way that is not a mapping is replaced
RECURSIVE C24_Written(_, _, _)
C24_Written(tree, parts, value) ==
    IF Len(parts) = 1
    THEN [tree EXCEPT !.v = ObjSet(tree.v, parts[1], value)]
    ELSE LET level == IF /\ Head(parts) \in DOMAIN tree.v
                         /\ tree.v[Head(parts)].t = "tree"
                      THEN tree.v[Head(parts)]
                      ELSE [t |-> "tree", v |-> EmptyObject]
         IN [tree EXCEPT !.v = ObjSet(tree.v, Head(parts),
                                      C24_Written(level, Tail(parts), value))]

\* the value a PropertyMapping writes for the value it read
C24_Transformed(propMapping, value) ==
    IF propMapping.valueTransform = Some("times1024")
    THEN Number(value.v[1] * 1024)
    ELSE value

C24_SingleMapping ==
    /\ MapPropertiesDone
    /\ RegisteredMapping # None
    /\ Len(RegisteredMapping[1].propertyMappings) = 1
    /\ RegisteredMapping[1].transformations = <<>>

C24_SinglePropertyMapping ==
    C24_SingleMapping =>
      LET propMapping == RegisteredMapping[1].propertyMappings[1]
          sourcePath == Split(propMapping.sourcePath, ".")
          targetPath == Split(propMapping.targetPath, ".")
          sourceValue == TreeAt(call.properties, sourcePath)
      IN /\ ~result.thrown
         /\ result.value.properties =
              IF sourceValue.t = "undefined"
              THEN call.properties
              ELSE C24_Written(C24_Deleted(call.properties, sourcePath), targetPath,
                               C24_Transformed(propMapping, sourceValue))

(***************************************************************************)
(* C25: mapProperties applies the PropertyMappings in declaration order,   *)
(* each one reading the property set left by the previous one, and only    *)
(* after all of them applies the whole-property-set Transformations in     *)
(* declaration order, each receiving the output of the previous; the       *)
(* returned value is the output of the last transformation (of the last    *)
(* PropertyMapping when there is no transformation).                       *)
(***************************************************************************)
\* the property set tree with value written at the path parts the way
\* setNestedValue writes it: a level that is missing or a primitive is created
RECURSIVE C25_Written(_, _, _)
C25_Written(tree, parts, value) ==
    IF Len(parts) = 1
    THEN [tree EXCEPT !.v = ObjSet(tree.v, parts[1], value)]
    ELSE LET level == IF /\ Head(parts) \in DOMAIN tree.v
                         /\ tree.v[Head(parts)].t \in {"tree", "list"}
                      THEN tree.v[Head(parts)]
                      ELSE [t |-> "tree", v |-> EmptyObject]
         IN [tree EXCEPT !.v = ObjSet(tree.v, Head(parts),
                                      C25_Written(level, Tail(parts), value))]

\* the property set one PropertyMapping leaves
C25_PropertyMapped(tree, propMapping) ==
    LET sourcePath == Split(propMapping.sourcePath, ".")
        sourceValue == TreeAt(tree, sourcePath)
    IN IF sourceValue.t = "undefined"
       THEN tree
       ELSE C25_Written(C24_Deleted(tree, sourcePath),
                        Split(propMapping.targetPath, "."),
                        C24_Transformed(propMapping, sourceValue))

\* the property set one transformation returns
C25_Transformed(tree, transformation) ==
    LET has(key, value) ==
            /\ key \in DOMAIN tree.v
            /\ tree.v[key].t = value.t
            /\ tree.v[key] = value
        moved(from, to, value) ==
            [tree EXCEPT !.v = ObjDelete(ObjSet(tree.v, to, value), from)]
    IN CASE transformation = "enabledToStatus" ->
              IF has(<<"enabled">>, Boolean(TRUE))
              THEN moved(<<"enabled">>, <<"status">>, Str(<<"active">>))
              ELSE tree
         [] transformation = "statusToState" ->
              IF has(<<"status">>, Str(<<"active">>))
              THEN moved(<<"status">>, <<"state">>, Str(<<"running">>))
              ELSE tree
         [] transformation \in {"step1", "step2"} ->
              [tree EXCEPT !.v = ObjSet(tree.v, <<transformation>>, Boolean(TRUE))]

\* the property set after the first n PropertyMappings of the finished call
RECURSIVE C25_AfterPropertyMappings(_)
C25_AfterPropertyMappings(n) ==
    IF n = 0
    THEN call.properties
    ELSE C25_PropertyMapped(C25_AfterPropertyMappings(n - 1),
                            RegisteredMapping[1].propertyMappings[n])

\* the property set after all PropertyMappings and the first n transformations
RECURSIVE C25_AfterTransformations(_)
C25_AfterTransformations(n) ==
    IF n = 0
    THEN C25_AfterPropertyMappings(Len(RegisteredMapping[1].propertyMappings))
    ELSE C25_Transformed(C25_AfterTransformations(n - 1),
                         RegisteredMapping[1].transformations[n])

C25_MappingsThenTransformationsInOrder ==
    (MapPropertiesDone /\ RegisteredMapping # None) =>
      /\ ~result.thrown
      /\ result.value.properties =
           C25_AfterTransformations(Len(RegisteredMapping[1].transformations))

\* a value went through both PropertyMappings (active to flag, flag to
\* enabled) and then both transformations (enabled to status, status to
\* state), each step reading what the step before it left
C25_Witness ==
    /\ MapPropertiesDone
    /\ RegisteredMapping # None
    /\ RegisteredMapping[1].targetType = <<"Test::Ordered">>
    /\ TreeAt(call.properties, << <<"active">> >>) = Boolean(TRUE)
    /\ DOMAIN result.value.properties.v = {<<"name">>, <<"state">>}
    /\ result.value.properties.v[<<"state">>] = Str(<<"running">>)

(***************************************************************************)
(* C26 (as stated): resource names are unique within a document: every IR  *)
(* document returned by a successful TerraformParser.parse has pairwise    *)
(* distinct resource names.                                                *)
(***************************************************************************)
\* a parse call that returned a document
C26_Parsed == pc = "done" /\ call.op = "parse" /\ ~result.thrown /\ result.value.success

C26_ResourceNamesUnique ==
    C26_Parsed =>
      LET resources == result.value.ir[1].resources IN
      \A i, j \in 1..Len(resources) :
         resources[i].name = resources[j].name => i = j

(***************************************************************************)
(* C27 (as stated): mapProperties never modifies the property mapping      *)
(* passed in by the caller: for every registered mapping (including        *)
(* PropertyMappings with nested dot-separated source or target paths) and  *)
(* every input, the caller's property object and all mappings nested       *)
(* inside it are, after the call, identical to what they were before.      *)
(***************************************************************************)
C27_InputUntouched ==
    MapPropertiesDone => result.value.argument = call.properties

(***************************************************************************)
(* C28 (as stated): mappings are isolated per language pair: a mapping     *)
(* registered under (sourceLanguage s, targetLanguage t) is returned by    *)
(* getMapping / mapResourceType / mapProperties / getAllMappings only for  *)
(* lookups whose source language equals s and whose target language equals *)
(* t case-insensitively, for all language-name strings; registering under  *)
(* one pair never adds, replaces or removes a mapping visible under a      *)
(* different pair.                                                         *)
(***************************************************************************)
\* the mappings registered last under the language pair of the finished call
C28_RegisteredForPair ==
    { lastMapping[triple] :
        triple \in { k \in DOMAIN lastMapping :
                       /\ k[1] = ToLowerCase(call.sourceLanguage)
                       /\ k[2] = ToLowerCase(call.targetLanguage) } }

\* every lookup answers with what was registered under its own language pair
C28_IsolatedPerLanguagePair ==
    /\ (pc = "done" /\ call.op = "getMapping") => result.value = RegisteredMapping
    /\ (pc = "done" /\ call.op = "mapResourceType") =>
         (result.value.t = "undefined" <=> RegisteredMapping = None)
    /\ MapPropertiesDone => (result.value.sameObject <=> RegisteredMapping = None)
    /\ (pc = "done" /\ call.op = "getAllMappings") =>
         {result.value[i] : i \in 1..Len(result.value)} = C28_RegisteredForPair

(***************************************************************************)
(* C29 (as stated): registerPlugin(plugin) registers the plugin in every   *)
(* slot whose capability it implements: a plugin with parse and validate   *)
(* becomes the parser for its language, a plugin with generate and format  *)
(* becomes the generator for its language (so a plugin implementing both   *)
(* capability sets is afterwards resolvable by both getParser and          *)
(* getGenerator), and a plugin implementing neither raises                 *)
(* PluginValidationError and changes nothing.                              *)
(***************************************************************************)
C29_Step ==
    (pc = "idle" /\ pc' = "done" /\ call'.op = "registerPlugin") =>
      LET plugin == call'.plugin
          hasParse == {"parse", "validate"} \subseteq DOMAIN plugin
          hasGenerate == {"generate", "format"} \subseteq DOMAIN plugin
      IN /\ (~hasParse /\ ~hasGenerate) =>
              /\ result'.thrown
              /\ result'.value.name = "PluginValidationError"
              /\ UNCHANGED <<parsers, generators>>
         /\ (hasParse /\ ~result'.thrown) =>
              MapGet(parsers', ToLowerCase(plugin.languageName.v)) = Some(plugin)
         /\ (hasGenerate /\ ~result'.thrown) =>
              MapGet(generators', ToLowerCase(plugin.languageName.v)) = Some(plugin)

C29_RegisteredInEverySlot == [][C29_Step]_vars

(***************************************************************************)
(* C30 (as stated): for every source that TerraformParser.parse accepts,   *)
(* the IR contains exactly one resource per resource block declaration, in *)
(* source order, and each resource's properties are exactly the key =      *)
(* value assignments written between that block's own opening brace and    *)
(* its matching closing brace (with depends_on moved to dependsOn); an     *)
(* assignment written inside one block never appears in the properties of  *)
(* another block.                                                          *)
(***************************************************************************)
\* the lines of the source of the finished call
C30_Lines == Split(call.source.v, "\n")

\* the lines that declare a resource block, in source order
C30_Declarations ==
    LET declares(i) == MatchBlock(Trim(C30_Lines[i]), "resource").matched
        RECURSIVE from(_)
        from(i) == IF i > Len(C30_Lines) THEN <<>>
                   ELSE (IF declares(i) THEN <<i>> ELSE <<>>) \o from(i + 1)
    IN from(1)

\* the line holding the closing brace that matches the opening brace of the
\* block declared on line i: the first line after which every brace opened
\* from line i on is closed (past the last line if there is none)
C30_ClosingLine(i) ==
    LET RECURSIVE closing(_, _)
        closing(j, depth) ==
            IF j > Len(C30_Lines)
            THEN j
            ELSE LET after == depth + Count(C30_Lines[j], "{") - Count(C30_Lines[j], "}")
                 IN IF after <= 0 THEN j ELSE closing(j + 1, after)
    IN closing(i, 0)

\* the assignments written on the lines between the opening line i of a block
\* and the line of its matching closing brace
C30_OwnAssignments(i) ==
    LET own == propertyLines(EmptyObject, SubSeq(C30_Lines, i + 1, C30_ClosingLine(i) - 1))
    IN IF <<"depends_on">> \in DOMAIN own /\ own[<<"depends_on">>].t = "array"
       THEN ObjDelete(own, <<"depends_on">>)
       ELSE own

C30_OneResourcePerBlock ==
    C26_Parsed =>
      LET resources == result.value.ir[1].resources IN
      /\ Len(resources) = Len(C30_Declarations)
      /\ \A k \in 1..Len(resources) :
           /\ resources[k].metadata.sourceLocation.line = C30_Declarations[k]
           /\ resources[k].properties = C30_OwnAssignments(C30_Declarations[k])

====
